---- MODULE Spec2Model ----
(***************************************************************************)
(* Model of the ESI processing engine of nussjustin/esi (package esiproc). *)
(*                                                                         *)
(* One Processor is shared by the Process calls in Calls.  Every Process   *)
(* call runs a producer goroutine that walks the node sequence and sends   *)
(* processedNode values on resC, a writer goroutine that receives them in  *)
(* order and writes them, one goroutine per <esi:include> that fetches     *)
(* through the shared semaphore incSema, and one goroutine per <esi:try>   *)
(* that walks the attempt branch into a private channel.                   *)
(***************************************************************************)
EXTENDS Naturals, Sequences, FiniteSets

\* ------------------------------------------------------------------ bounds

\* Largest concurrency limit (WithClientConcurrency(n), n in 1..MaxLimit).
MaxLimit == 2
\* Longest top-level node sequence handed to Process.
MaxDocLen == 2

\* Capacity of resC and of a try's attemptC.
ChanCap == 32

\* The Process calls that may be active on the Processor at the same time.
Calls == {1, 2}

\* ------------------------------------------------------------- node trees

\* An error value: its type and, for the element errors, the node it names.
Err(type, elem) == [type |-> type, elem |-> elem]

NoErr == Err("nil", 0)

\* ctx.Err() of a context that is done.
Canceled == Err("ctx", 0)

UnsupportedElementError(elem) == Err("unsupported", elem)

UnexpectedElementError(elem) == Err("unexpected", elem)

InvalidExpressionResultError(elem, expr, result) ==
  [type |-> "invalidresult", elem |-> elem, expr |-> expr, result |-> result]

\* errors.Is(err, errors.ErrUnsupported): UnsupportedElementError unwraps to it.
IsErrUnsupported(err) == err.type = "unsupported"

Blank ==
  [kind |-> "", bytes |-> <<>>, src |-> "", alt |-> "", onerr |-> "",
   test |-> "", kids |-> <<>>, oth |-> 0]

RawData(b) == [Blank EXCEPT !.kind = "raw", !.bytes = b]

IncludeElement(src, alt, onerr) ==
  [Blank EXCEPT !.kind = "include", !.src = src, !.alt = alt, !.onerr = onerr]

CommentElement == [Blank EXCEPT !.kind = "comment"]

\* kids: the <esi:when> children in document order; oth: the <esi:otherwise>
\* child, 0 for a nil pointer.
ChooseElement(whens, otherwise) ==
  [Blank EXCEPT !.kind = "choose", !.kids = whens, !.oth = otherwise]

WhenElement(test, nodes) ==
  [Blank EXCEPT !.kind = "when", !.test = test, !.kids = nodes]

OtherwiseElement(nodes) == [Blank EXCEPT !.kind = "otherwise", !.kids = nodes]

\* kids[1]: the Attempt child, kids[2]: the Except child.
TryElement(attempt, except) ==
  [Blank EXCEPT !.kind = "try", !.kids = <<attempt, except>>]

AttemptElement(nodes) == [Blank EXCEPT !.kind = "attempt", !.kids = nodes]

ExceptElement(nodes) == [Blank EXCEPT !.kind = "except", !.kids = nodes]

RemoveElement(nodes) == [Blank EXCEPT !.kind = "remove", !.kids = nodes]

VarsElement(nodes) == [Blank EXCEPT !.kind = "vars", !.kids = nodes]

InlineElement(nodes) == [Blank EXCEPT !.kind = "inline", !.kids = nodes]

ErrorBehaviourContinue == "continue"

\* The nodes documents are built from; a node is named by its index here.
NodeTab ==
  << RawData(<<"a">>),                                      \*  1
     IncludeElement("/x", "/u", ""),                        \*  2
     IncludeElement("/f", "", ""),                          \*  3
     IncludeElement("/f", "/$y", ""),                       \*  4
     IncludeElement("/g", "", ErrorBehaviourContinue),      \*  5
     ChooseElement(<<12, 13, 14>>, 15),                     \*  6
     TryElement(20, 21),                                    \*  7
     TryElement(25, 26),                                    \*  8
     ChooseElement(<<>>, 33),                               \*  9
     ChooseElement(<<35, 36>>, 0),                          \* 10
     CommentElement,                                        \* 11
     WhenElement("F", <<16>>),                              \* 12
     WhenElement("T", <<17, 11>>),                          \* 13
     WhenElement("T", <<18>>),                              \* 14
     OtherwiseElement(<<19>>),                              \* 15
     RawData(<<"p">>),                                      \* 16
     IncludeElement("/z", "", ""),                          \* 17
     RawData(<<"q">>),                                      \* 18
     RawData(<<"o">>),                                      \* 19
     AttemptElement(<<22, 23>>),                            \* 20
     ExceptElement(<<24>>),                                 \* 21
     RawData(<<"b">>),                                      \* 22
     IncludeElement("/f", "", ""),                          \* 23
     RawData(<<"e">>),                                      \* 24
     AttemptElement(<<27, 28>>),                            \* 25
     ExceptElement(<<29, 32>>),                             \* 26
     RawData(<<"c">>),                                      \* 27
     IncludeElement("/w", "", ""),                          \* 28
     ChooseElement(<<30>>, 39),                             \* 29
     WhenElement("F", <<31>>),                              \* 30
     RawData(<<"r">>),                                      \* 31
     IncludeElement("/v", "", ""),                          \* 32
     OtherwiseElement(<<34>>),                              \* 33
     RawData(<<"h">>),                                      \* 34
     WhenElement("E", <<37>>),                              \* 35
     WhenElement("T", <<38>>),                              \* 36
     RawData(<<"k">>),                                      \* 37
     RawData(<<"m">>),                                      \* 38
     OtherwiseElement(<<40>>),                              \* 39
     RawData(<<"s">>),                                      \* 40
     RemoveElement(<<42, 43>>),                             \* 41
     RawData(<<"n">>),                                      \* 42
     IncludeElement("/t", "", ""),                          \* 43
     VarsElement(<<45>>),                                   \* 44
     RawData(<<"d">>),                                      \* 45
     InlineElement(<<47>>),                                 \* 46
     RawData(<<"i">>),                                      \* 47
     OtherwiseElement(<<49>>),                              \* 48
     RawData(<<"j">>),                                      \* 49
     ChooseElement(<<51, 52>>, 53),                         \* 50
     WhenElement("N", <<54>>),                              \* 51
     WhenElement("T", <<55>>),                              \* 52
     OtherwiseElement(<<56>>),                              \* 53
     RawData(<<"1">>),                                      \* 54
     RawData(<<"2">>),                                      \* 55
     RawData(<<"3">>),                                      \* 56
     ChooseElement(<<58, 59>>, 0),                          \* 57
     WhenElement("F", <<60>>),                              \* 58
     WhenElement("Z", <<61>>),                              \* 59
     RawData(<<"4">>),                                      \* 60
     RawData(<<"5">>),                                      \* 61
     ChooseElement(<<63, 64, 65>>, 66),                     \* 62
     WhenElement("F", <<67>>),                              \* 63
     WhenElement("T", <<68, 69>>),                          \* 64
     WhenElement("T", <<70>>),                              \* 65
     OtherwiseElement(<<71>>),                              \* 66
     IncludeElement("/c1", "", ""),                          \* 67
     IncludeElement("/c2", "", ""),                          \* 68
     IncludeElement("/c3", "", ""),                          \* 69
     IncludeElement("/c4", "", ""),                          \* 70
     IncludeElement("/c5", "", ""),                          \* 71
     ChooseElement(<<73>>, 74),                             \* 72
     WhenElement("F", <<75>>),                              \* 73
     OtherwiseElement(<<76>>),                              \* 74
     IncludeElement("/c6", "", ""),                          \* 75
     IncludeElement("/c7", "", ""),                          \* 76
     IncludeElement("/nest", "", "")                        \* 77
  >>

NodeIds == 1..Len(NodeTab)

\* The nodes that may stand at the top level of a document.
ElemIds == (1..11) \cup {41, 44, 46, 48, 50, 57}

KindIds(kind) == {id \in NodeIds : NodeTab[id].kind = kind}

IncIds == KindIds("include")
TryIds == KindIds("try")
ChooseIds == KindIds("choose")
WhenIds == KindIds("when")

Range(s) == {s[i] : i \in 1..Len(s)}

\* The choose a when belongs to: eval is handed both.
ChooseOf(when) ==
  CHOOSE ch \in ChooseIds : \E i \in 1..Len(NodeTab[ch].kids) : NodeTab[ch].kids[i] = when

RECURSIVE SeqsUpTo(_, _)
\* The sequences without repetition over S of length at most n.
SeqsUpTo(S, n) ==
  IF n = 0 THEN {<<>>}
  ELSE LET shorter == SeqsUpTo(S, n - 1)
       IN  shorter \cup {Append(s, x) : s \in shorter, x \in S}

\* The documents over the nodes in S: 1 to MaxDocLen different nodes.
DocsOver(S) ==
  {d \in SeqsUpTo(S, MaxDocLen) :
     /\ Len(d) >= 1
     /\ \A i, j \in 1..Len(d) : i # j => d[i] # d[j]}

Docs == DocsOver(ElemIds)

\* ----------------------------------------------------------- collaborators

\* The evaluation collaborator: the value and error an EvalFunc returns for a
\* test expression; "N" yields a value that is not a bool.
EvalFunc(expr) ==
  CASE expr = "T" -> [val |-> "true", err |-> NoErr]
    [] expr = "F" -> [val |-> "false", err |-> NoErr]
    [] expr = "N" -> [val |-> "string", err |-> NoErr]
    [] expr = "Z" -> [val |-> "nil", err |-> NoErr]
    [] OTHER      -> [val |-> "nil", err |-> Err("eval", 0)]

\* The interpolation collaborator: replaces $y by its value, fails on $bad.
InterpolateFunc(s) ==
  CASE s = "/$y"   -> [s |-> "/y", err |-> NoErr]
    [] s = "/$bad" -> [s |-> "", err |-> Err("interpolate", 0)]
    [] OTHER       -> [s |-> s, err |-> NoErr]

\* The fetch collaborator: what Client.Do returns for a URL.  "/g" fails and
\* returns the bytes it had read alongside the error.
ClientDo(url) ==
  CASE url = "/x" -> [data |-> <<"x">>, err |-> NoErr]
    [] url = "/y" -> [data |-> <<"y">>, err |-> NoErr]
    [] url = "/z" -> [data |-> <<"z">>, err |-> NoErr]
    [] url = "/w" -> [data |-> <<"w">>, err |-> NoErr]
    [] url = "/v" -> [data |-> <<"v">>, err |-> NoErr]
    [] url = "/u" -> [data |-> <<"u">>, err |-> NoErr]
    [] url = "/t" -> [data |-> <<"t">>, err |-> NoErr]
    [] url = "/c1" -> [data |-> <<"A">>, err |-> NoErr]
    [] url = "/c2" -> [data |-> <<"B">>, err |-> NoErr]
    [] url = "/c3" -> [data |-> <<"D">>, err |-> NoErr]
    [] url = "/c4" -> [data |-> <<"E">>, err |-> NoErr]
    [] url = "/c5" -> [data |-> <<"G">>, err |-> NoErr]
    [] url = "/c6" -> [data |-> <<"H">>, err |-> NoErr]
    [] url = "/c7" -> [data |-> <<"J">>, err |-> NoErr]
    [] url = "/g" -> [data |-> <<"g">>, err |-> Err("fetch", 0)]
    [] OTHER      -> [data |-> <<>>, err |-> Err("fetch", 0)]

\* -------------------------------------------------------------------- state

VARIABLES
  opts,       \* processorOptions: client, evalFunc, interpolateFunc set or nil,
              \* and clientConcurrency
  docs,       \* per call: the node sequence handed to Process
  incSema,    \* number of tokens held in the Processor's incSema channel
  ctx,        \* per call: the contexts (0: Process's ctx, t: try t's attemptCtx)
  chans,      \* per call: the channels (0: resC, t: try t's attemptC)
  walkers,    \* per call: the walking goroutines (0: producer, t: try t's attempt)
  incs,       \* per call: the include structs and their goroutines
  cons,       \* per call: the writer goroutine, the writer and firstErr
  ret,        \* per call: what Process returned
  evald,      \* per call: the <esi:when> whose test was handed to the EvalFunc
  cancelled,  \* per call: whether the caller cancelled the ctx it passed
  pool,       \* the Processor with fetch workers and Release, and its callers
  parser,     \* a Parser: its reader's tokens, stack, err, and what it yielded
  reader      \* an esixml.Reader: its input, offset, err, stateFn and results

vars == <<opts, docs, incSema, ctx, chans, walkers, incs, cons, ret, evald,
          cancelled, pool, parser, reader>>

\* The variables of the Processor that fetches through incSema.
procVars == <<opts, docs, incSema, ctx, chans, walkers, incs, cons, ret, evald,
              cancelled>>

\* Contexts, channels and walkers are named alike: 0 belongs to Process itself,
\* t to the <esi:try> with node id t.
CtxIds == {0} \cup TryIds

Item(inc, data, err) == [inc |-> inc, data |-> data, err |-> err]

NoItem == Item(0, <<>>, NoErr)

Frame(k, node) ==
  [k |-> k, node |-> node, i |-> 1, ph |-> "", acc |-> <<>>, cur |-> NoItem]

Top(s) == s[Len(s)]

Pop(s) == SubSeq(s, 1, Len(s) - 1)

SetTop(s, f) == [s EXCEPT ![Len(s)] = f]

\* Mutant: every call walks the node sequence of the first call.
NodesOfFirst(c, node) == IF node = 0 THEN docs[1] ELSE NodeTab[node].kids

\* The node list a "seq" frame ranges over: the document for node 0.
Nodes(c, node) == IF node = 0 THEN docs[c] ELSE NodeTab[node].kids

CtxDone(c, x) == ctx[c][x].done

RECURSIVE Under(_, _, _)
\* Whether context y is x or derived from it.
Under(cx, y, x) ==
  \/ y = x
  \/ /\ y # 0
     /\ cx[y].made
     /\ Under(cx, cx[y].par, x)

\* cancel() of context x: x and every context derived from it are done.
Cancel(cx, x) ==
  [y \in CtxIds |-> IF Under(cx, y, x) THEN [cx[y] EXCEPT !.done = TRUE]
                    ELSE cx[y]]

\* New(opts...): every collaborator configured, under each concurrency limit,
\* and each collaborator missing on its own (under the default limit 1).
AllOpts ==
  {[client |-> TRUE, evalFunc |-> TRUE, interpolateFunc |-> TRUE,
    clientConcurrency |-> n] : n \in 1..MaxLimit}
  \cup {[client |-> FALSE, evalFunc |-> TRUE, interpolateFunc |-> TRUE,
         clientConcurrency |-> 1],
        [client |-> TRUE, evalFunc |-> FALSE, interpolateFunc |-> TRUE,
         clientConcurrency |-> 1],
        [client |-> TRUE, evalFunc |-> TRUE, interpolateFunc |-> FALSE,
         clientConcurrency |-> 1]}

\* New (opts applied, incSema empty) followed by one Process call per
\* document; a call with the empty document stands for no call.
InitProc(O, D1, D2) ==
  /\ opts \in O
  /\ incSema = 0
  /\ docs \in [Calls -> D1 \cup D2]
  /\ docs[1] \in D1
  /\ docs[2] \in D2
  /\ ctx = [c \in Calls |->
             [x \in CtxIds |-> [made |-> x = 0, par |-> 0, done |-> FALSE]]]
  /\ chans = [c \in Calls |-> [x \in CtxIds |-> [buf |-> <<>>, closed |-> FALSE]]]
  /\ walkers =
       [c \in Calls |->
          [x \in CtxIds |->
             IF x = 0 /\ docs[c] # <<>>
             THEN [st |-> "run", stack |-> <<Frame("seq", 0)>>]
             ELSE [st |-> "idle", stack |-> <<>>]]]
  /\ incs =
       [c \in Calls |->
          [i \in IncIds |->
             [pc |-> "idle", ctx |-> 0, data |-> <<>>, err |-> NoErr,
              urls |-> <<>>]]]
  /\ cons =
       [c \in Calls |->
          [pc |-> IF docs[c] = <<>> THEN "done" ELSE "recv", cur |-> NoItem,
           out |-> <<>>, firstErr |-> NoErr, total |-> 0]]
  /\ ret = [c \in Calls |->
             [st |-> IF docs[c] = <<>> THEN "unused" ELSE "running", n |-> 0,
              err |-> NoErr]]
  /\ evald = [c \in Calls |-> {}]
  /\ cancelled = [c \in Calls |-> FALSE]

\* No Processor with fetch workers has been made.
NoPool == [made |-> FALSE]

\* No Parser has been made.
NoParser == [made |-> FALSE]

NoReader == [made |-> FALSE]

InitWith(O, D1, D2) ==
  /\ InitProc(O, D1, D2)
  /\ pool = NoPool
  /\ parser = NoParser
  /\ reader = NoReader

Init == InitWith(AllOpts, Docs, {<<>>})

\* ------------------------------------------------------------ the walkers

Running(c, w) == walkers[c][w].st = "run"

TopFrame(c, w) == Top(walkers[c][w].stack)

\* The walker stands in a processNodes loop in front of a node of this kind.
AtNode(c, w, kind) ==
  /\ Running(c, w)
  /\ TopFrame(c, w).k = "seq"
  /\ TopFrame(c, w).i <= Len(Nodes(c, TopFrame(c, w).node))
  /\ NodeTab[Nodes(c, TopFrame(c, w).node)[TopFrame(c, w).i]].kind = kind

CurNode(c, w) == Nodes(c, TopFrame(c, w).node)[TopFrame(c, w).i]

\* The stack once the loop has moved on to the next node.
Advanced(c, w) ==
  SetTop(walkers[c][w].stack, [TopFrame(c, w) EXCEPT !.i = @ + 1])

SetStack(c, w, s) == [walkers EXCEPT ![c][w].stack = s]

\* send(data, inc, err): a select between <-ctx.Done() and resC <- item.  The
\* channels of call c after walker w's send: the item is queued when the
\* channel has room, and dropped when the walker's context is done; when both
\* cases are ready either happens.
SendOutcomes(c, w, item) ==
  (IF Len(chans[c][w].buf) < ChanCap
   THEN {[chans[c] EXCEPT ![w].buf = Append(@, item)]}
   ELSE {})
  \cup (IF CtxDone(c, w) THEN {chans[c]} ELSE {})

Send(c, w, item) ==
  \E nc \in SendOutcomes(c, w, item) : chans' = [chans EXCEPT ![c] = nc]

\* case *esi.RawData: send(v.Bytes, nil, nil)
StepRaw(c, w) ==
  /\ AtNode(c, w, "raw")
  /\ Send(c, w, Item(0, NodeTab[CurNode(c, w)].bytes, NoErr))
  /\ walkers' = SetStack(c, w, Advanced(c, w))
  /\ UNCHANGED <<opts, docs, incSema, ctx, incs, cons, ret, evald, cancelled,
                 pool, parser, reader>>

\* case *esi.CommentElement: nothing is sent.
StepComment(c, w) ==
  /\ AtNode(c, w, "comment")
  /\ walkers' = SetStack(c, w, Advanced(c, w))
  /\ UNCHANGED <<opts, docs, incSema, ctx, chans, incs, cons, ret, evald,
                 cancelled, pool, parser, reader>>

\* Mutant: the nodes inside a remove are processed.
StepRemoveWalks(c, w) ==
  /\ AtNode(c, w, "remove")
  /\ walkers' = SetStack(c, w, Append(Advanced(c, w), Frame("seq", CurNode(c, w))))
  /\ UNCHANGED <<opts, docs, incSema, ctx, chans, incs, cons, ret, evald,
                 cancelled, pool, parser, reader>>

\* case *esi.RemoveElement: nothing is sent and v.Nodes are not looked at.
StepRemove(c, w) ==
  /\ AtNode(c, w, "remove")
  /\ walkers' = SetStack(c, w, Advanced(c, w))
  /\ UNCHANGED <<opts, docs, incSema, ctx, chans, incs, cons, ret, evald,
                 cancelled, pool, parser, reader>>

\* Mutant: vars and inline are skipped without an error.
StepUnsupportedSkips(c, w) ==
  /\ \E kind \in {"vars", "inline"} : AtNode(c, w, kind)
  /\ walkers' = SetStack(c, w, Advanced(c, w))
  /\ UNCHANGED <<opts, docs, incSema, ctx, chans, incs, cons, ret, evald,
                 cancelled, pool, parser, reader>>

\* case *esi.InlineElement, case *esi.VarsElement:
\* send(nil, nil, &UnsupportedElementError{Element: v})
StepUnsupported(c, w) ==
  /\ \E kind \in {"vars", "inline"} : AtNode(c, w, kind)
  /\ Send(c, w, Item(0, <<>>, UnsupportedElementError(CurNode(c, w))))
  /\ walkers' = SetStack(c, w, Advanced(c, w))
  /\ UNCHANGED <<opts, docs, incSema, ctx, incs, cons, ret, evald, cancelled,
                 pool, parser, reader>>

\* case *esi.AttemptElement, *esi.ExceptElement, *esi.OtherwiseElement,
\* *esi.WhenElement: send(nil, nil, &UnexpectedElementError{Element: v})
StepUnexpected(c, w) ==
  /\ \E kind \in {"attempt", "except", "otherwise", "when"} : AtNode(c, w, kind)
  /\ Send(c, w, Item(0, <<>>, UnexpectedElementError(CurNode(c, w))))
  /\ walkers' = SetStack(c, w, Advanced(c, w))
  /\ UNCHANGED <<opts, docs, incSema, ctx, incs, cons, ret, evald, cancelled,
                 pool, parser, reader>>

\* processNodes returns; a goroutine whose last loop returns closes its channel
\* (resC for the producer, attemptC for an attempt).
SeqDone(c, w) ==
  /\ Running(c, w)
  /\ TopFrame(c, w).k = "seq"
  /\ TopFrame(c, w).i > Len(Nodes(c, TopFrame(c, w).node))
  /\ IF Len(walkers[c][w].stack) = 1
     THEN /\ walkers' = [walkers EXCEPT ![c][w] = [st |-> "done", stack |-> <<>>]]
          /\ chans' = [chans EXCEPT ![c][w].closed = TRUE]
     ELSE /\ walkers' = SetStack(c, w, Pop(walkers[c][w].stack))
          /\ UNCHANGED chans
  /\ UNCHANGED <<opts, docs, incSema, ctx, incs, cons, ret, evald, cancelled,
                 pool, parser, reader>>

\* Mutant: without a client an include is a silent no-op.
StartIncludeSilent(c, w) ==
  /\ AtNode(c, w, "include")
  /\ IF ~opts.client \/ CtxDone(c, w)
     THEN /\ IF opts.client THEN Send(c, w, Item(0, <<>>, Canceled))
             ELSE UNCHANGED chans
          /\ walkers' = SetStack(c, w, Advanced(c, w))
          /\ UNCHANGED incs
     ELSE /\ incs' = [incs EXCEPT ![c][CurNode(c, w)].pc = "src",
                                  ![c][CurNode(c, w)].ctx = w]
          /\ walkers' =
               SetStack(c, w,
                 Append(Advanced(c, w),
                        [Frame("send", CurNode(c, w)) EXCEPT
                           !.cur = Item(CurNode(c, w), <<>>, NoErr)]))
          /\ UNCHANGED chans
  /\ UNCHANGED <<opts, docs, incSema, ctx, cons, ret, evald, cancelled,
                 pool, parser, reader>>

\* case *esi.IncludeElement: without a client the element is unsupported;
\* otherwise include() returns ctx.Err() if the context is done and else
\* starts the include's goroutine; the send of the result follows.
StartInclude(c, w) ==
  /\ AtNode(c, w, "include")
  /\ IF ~opts.client
     THEN /\ Send(c, w, Item(0, <<>>, UnsupportedElementError(CurNode(c, w))))
          /\ walkers' = SetStack(c, w, Advanced(c, w))
          /\ UNCHANGED incs
     ELSE IF CtxDone(c, w)
     THEN /\ Send(c, w, Item(0, <<>>, Canceled))
          /\ walkers' = SetStack(c, w, Advanced(c, w))
          /\ UNCHANGED incs
     ELSE /\ incs' = [incs EXCEPT ![c][CurNode(c, w)].pc = "src",
                                  ![c][CurNode(c, w)].ctx = w]
          /\ walkers' =
               SetStack(c, w,
                 Append(Advanced(c, w),
                        [Frame("send", CurNode(c, w)) EXCEPT
                           !.cur = Item(CurNode(c, w), <<>>, NoErr)]))
          /\ UNCHANGED chans
  /\ UNCHANGED <<opts, docs, incSema, ctx, cons, ret, evald, cancelled,
                 pool, parser, reader>>

\* send(nil, inc, err) after include() returned the started include.
SendInclude(c, w) ==
  /\ Running(c, w)
  /\ TopFrame(c, w).k = "send"
  /\ Send(c, w, TopFrame(c, w).cur)
  /\ walkers' = SetStack(c, w, Pop(walkers[c][w].stack))
  /\ UNCHANGED <<opts, docs, incSema, ctx, incs, cons, ret, evald, cancelled,
                 pool, parser, reader>>

\* case *esi.ChooseElement: the loop over v.When is entered.
EnterChoose(c, w) ==
  /\ AtNode(c, w, "choose")
  /\ walkers' = SetStack(c, w, Append(Advanced(c, w),
                                      Frame("choose", CurNode(c, w))))
  /\ UNCHANGED <<opts, docs, incSema, ctx, chans, incs, cons, ret, evald,
                 cancelled, pool, parser, reader>>

\* Mutant: the result of the test is negated.
EvalNegated(when) ==
  IF ~opts.evalFunc
  THEN [result |-> FALSE, err |-> UnsupportedElementError(ChooseOf(when))]
  ELSE IF EvalFunc(NodeTab[when].test).err # NoErr
  THEN [result |-> FALSE, err |-> EvalFunc(NodeTab[when].test).err]
  ELSE IF EvalFunc(NodeTab[when].test).val \notin {"true", "false"}
  THEN [result |-> FALSE,
        err |-> InvalidExpressionResultError(when, NodeTab[when].test,
                                             EvalFunc(NodeTab[when].test).val)]
  ELSE [result |-> EvalFunc(NodeTab[when].test).val # "true", err |-> NoErr]

\* Mutant: a result that is not a bool counts as false.
EvalNonBoolFalse(when) ==
  IF ~opts.evalFunc
  THEN [result |-> FALSE, err |-> UnsupportedElementError(ChooseOf(when))]
  ELSE IF EvalFunc(NodeTab[when].test).err # NoErr
  THEN [result |-> FALSE, err |-> EvalFunc(NodeTab[when].test).err]
  ELSE [result |-> EvalFunc(NodeTab[when].test).val = "true", err |-> NoErr]

\* Mutant: a true result does not end the loop over v.When.
EvalNeverTrue(when) ==
  IF ~opts.evalFunc
  THEN [result |-> FALSE, err |-> UnsupportedElementError(ChooseOf(when))]
  ELSE IF EvalFunc(NodeTab[when].test).err # NoErr
  THEN [result |-> FALSE, err |-> EvalFunc(NodeTab[when].test).err]
  ELSE IF EvalFunc(NodeTab[when].test).val \notin {"true", "false"}
  THEN [result |-> FALSE,
        err |-> InvalidExpressionResultError(when, NodeTab[when].test,
                                             EvalFunc(NodeTab[when].test).val)]
  ELSE [result |-> FALSE, err |-> NoErr]

\* Processor.eval: the result and error for one <esi:when> of a choose.
Eval(when) ==
  IF ~opts.evalFunc
  THEN [result |-> FALSE, err |-> UnsupportedElementError(ChooseOf(when))]
  ELSE IF EvalFunc(NodeTab[when].test).err # NoErr
  THEN [result |-> FALSE, err |-> EvalFunc(NodeTab[when].test).err]
  ELSE IF EvalFunc(NodeTab[when].test).val \notin {"true", "false"}
  THEN [result |-> FALSE,
        err |-> InvalidExpressionResultError(when, NodeTab[when].test,
                                             EvalFunc(NodeTab[when].test).val)]
  ELSE [result |-> EvalFunc(NodeTab[when].test).val = "true", err |-> NoErr]

\* One round of the loop over v.When: eval, then send the error and return,
\* or continue with the next when, or process the when's nodes and return.
EvalWhen(c, w) ==
  /\ Running(c, w)
  /\ TopFrame(c, w).k = "choose"
  /\ TopFrame(c, w).i <= Len(NodeTab[TopFrame(c, w).node].kids)
  /\ LET f == TopFrame(c, w)
         when == NodeTab[f.node].kids[f.i]
         r == Eval(when)
         s == walkers[c][w].stack
     IN  /\ evald' = [evald EXCEPT ![c] = IF opts.evalFunc THEN @ \cup {when}
                                           ELSE @]
         /\ IF r.err # NoErr
            THEN /\ Send(c, w, Item(0, <<>>, r.err))
                 /\ walkers' = SetStack(c, w, Pop(s))
            ELSE IF r.result
            THEN /\ walkers' = SetStack(c, w, SetTop(s, Frame("seq", when)))
                 /\ UNCHANGED chans
            ELSE /\ walkers' = SetStack(c, w, SetTop(s, [f EXCEPT !.i = @ + 1]))
                 /\ UNCHANGED chans
  /\ UNCHANGED <<opts, docs, incSema, ctx, incs, cons, ret, cancelled,
                 pool, parser, reader>>

\* No when matched: return if v.Otherwise is nil, else process its nodes.
ChooseOtherwise(c, w) ==
  /\ Running(c, w)
  /\ TopFrame(c, w).k = "choose"
  /\ TopFrame(c, w).i > Len(NodeTab[TopFrame(c, w).node].kids)
  /\ LET f == TopFrame(c, w)
         s == walkers[c][w].stack
     IN  walkers' =
           SetStack(c, w, IF NodeTab[f.node].oth = 0 THEN Pop(s)
                          ELSE SetTop(s, Frame("seq", NodeTab[f.node].oth)))
  /\ UNCHANGED <<opts, docs, incSema, ctx, chans, incs, cons, ret, evald,
                 cancelled, pool, parser, reader>>

\* ------------------------------------------------------------ <esi:try>

\* case *esi.TryElement: attemptCtx is derived from ctx, attemptC is made and
\* the goroutine walking v.Attempt.Nodes is started.
StartTry(c, w) ==
  /\ AtNode(c, w, "try")
  /\ LET t == CurNode(c, w)
     IN  /\ ctx' = [ctx EXCEPT ![c][t] =
                      [made |-> TRUE, par |-> w, done |-> CtxDone(c, w)]]
         /\ walkers' =
              [walkers EXCEPT
                 ![c][t] = [st |-> "run",
                            stack |-> <<Frame("seq", NodeTab[t].kids[1])>>],
                 ![c][w].stack =
                   Append(Advanced(c, w), [Frame("try", t) EXCEPT !.ph = "range"])]
  /\ UNCHANGED <<opts, docs, incSema, chans, incs, cons, ret, evald, cancelled,
                 pool, parser, reader>>

InTry(c, w, ph) ==
  /\ Running(c, w)
  /\ TopFrame(c, w).k = "try"
  /\ TopFrame(c, w).ph = ph

\* The stack after an attempt's node failed: the except nodes are processed
\* with the try's own ctx and channel, then the try returns.
TryFailed(c, w) ==
  Append(SetTop(walkers[c][w].stack, [TopFrame(c, w) EXCEPT !.ph = "ret"]),
         Frame("seq", NodeTab[TopFrame(c, w).node].kids[2]))

\* The stack after an attempt's node yielded data: it is appended to allData.
TryCollected(c, w, data) ==
  SetTop(walkers[c][w].stack,
         [TopFrame(c, w) EXCEPT !.ph = "range", !.acc = Append(@, data),
                                !.cur = NoItem])

\* for attempt := range attemptC: the next item is received; wait returns at
\* once for an item that carries an error or no include.
TryRecv(c, w) ==
  /\ InTry(c, w, "range")
  /\ chans[c][TopFrame(c, w).node].buf # <<>>
  /\ LET t == TopFrame(c, w).node
         item == Head(chans[c][t].buf)
     IN  /\ chans' = [chans EXCEPT ![c][t].buf = Tail(@)]
         /\ walkers' =
              SetStack(c, w,
                IF item.err # NoErr THEN TryFailed(c, w)
                ELSE IF item.inc = 0 THEN TryCollected(c, w, item.data)
                ELSE SetTop(walkers[c][w].stack,
                            [TopFrame(c, w) EXCEPT !.ph = "wait", !.cur = item]))
  /\ UNCHANGED <<opts, docs, incSema, ctx, incs, cons, ret, evald, cancelled,
                 pool, parser, reader>>

\* Mutant: wait does not block until the include's done channel is closed.
WaitReadyEarly(c, x, item) ==
  {"inc"} \cup (IF CtxDone(c, x) THEN {"ctx"} ELSE {})

\* wait that is ready only once every include the call has launched is done.
WaitReadyAll(c, x, item) ==
  (IF \A i \in DOMAIN incs[c] : incs[c][i].pc \in {"idle", "done"}
   THEN {"inc"} ELSE {})
  \cup (IF CtxDone(c, x) THEN {"ctx"} ELSE {})

\* processedNode.wait(ctx): the cases of its select that are ready, for a
\* waiter whose context is x.
WaitReady(c, x, item) ==
  (IF incs[c][item.inc].pc = "done" THEN {"inc"} ELSE {})
  \cup (IF CtxDone(c, x) THEN {"ctx"} ELSE {})

\* What wait returns when the given case of its select is taken.
WaitResult(c, item, case) ==
  IF case = "ctx" THEN [data |-> <<>>, err |-> Canceled]
  ELSE [data |-> incs[c][item.inc].data, err |-> incs[c][item.inc].err]

\* attempt.wait(ctx) for an item that carries an include.
TryWait(c, w) ==
  /\ InTry(c, w, "wait")
  /\ \E case \in WaitReady(c, w, TopFrame(c, w).cur) :
       LET r == WaitResult(c, TopFrame(c, w).cur, case)
       IN  walkers' = SetStack(c, w, IF r.err # NoErr THEN TryFailed(c, w)
                                     ELSE TryCollected(c, w, r.data))
  /\ UNCHANGED <<opts, docs, incSema, ctx, chans, incs, cons, ret, evald,
                 cancelled, pool, parser, reader>>

\* attemptC is closed and drained: the range loop ends.
TryClosed(c, w) ==
  /\ InTry(c, w, "range")
  /\ chans[c][TopFrame(c, w).node].buf = <<>>
  /\ chans[c][TopFrame(c, w).node].closed
  /\ walkers' = SetStack(c, w, SetTop(walkers[c][w].stack,
                                      [TopFrame(c, w) EXCEPT !.ph = "flush"]))
  /\ UNCHANGED <<opts, docs, incSema, ctx, chans, incs, cons, ret, evald,
                 cancelled, pool, parser, reader>>

\* for _, data := range allData { send(data, nil, nil) }
TryFlush(c, w) ==
  /\ InTry(c, w, "flush")
  /\ TopFrame(c, w).i <= Len(TopFrame(c, w).acc)
  /\ Send(c, w, Item(0, TopFrame(c, w).acc[TopFrame(c, w).i], NoErr))
  /\ walkers' = SetStack(c, w, SetTop(walkers[c][w].stack,
                                      [TopFrame(c, w) EXCEPT !.i = @ + 1]))
  /\ UNCHANGED <<opts, docs, incSema, ctx, incs, cons, ret, evald, cancelled,
                 pool, parser, reader>>

\* The try case returns, after the flush or after the except nodes; the
\* deferred cancel() of attemptCtx runs.
TryReturn(c, w) ==
  /\ \/ InTry(c, w, "ret")
     \/ InTry(c, w, "flush") /\ TopFrame(c, w).i > Len(TopFrame(c, w).acc)
  /\ ctx' = [ctx EXCEPT ![c] = Cancel(@, TopFrame(c, w).node)]
  /\ walkers' = SetStack(c, w, Pop(walkers[c][w].stack))
  /\ UNCHANGED <<opts, docs, incSema, chans, incs, cons, ret, evald, cancelled,
                 pool, parser, reader>>

\* ------------------------------------------------- the include goroutines

\* Processor.interpolate: s itself without an InterpolateFunc.
Interpolate(s) ==
  IF ~opts.interpolateFunc THEN [s |-> s, err |-> NoErr] ELSE InterpolateFunc(s)

\* Mutant: the alt is tried whenever there is one, also after a successful src.
AfterDoAlwaysAlt(inc, node, first, data, err) ==
  IF first /\ node.alt # ""
  THEN [inc EXCEPT !.pc = "alt", !.data = data, !.err = err]
  ELSE [inc EXCEPT !.pc = "done", !.data = data,
                   !.err = IF err # NoErr /\ node.onerr = ErrorBehaviourContinue
                           THEN NoErr ELSE err]

\* The include after doInclude returned (data, err) for its src (first = TRUE)
\* or its alt: a failed src with an alt goes on to the alt; otherwise the
\* goroutine ends, onerror="continue" clears the error, and done is closed.
AfterDo(inc, node, first, data, err) ==
  IF first /\ err # NoErr /\ node.alt # ""
  THEN [inc EXCEPT !.pc = "alt", !.data = data, !.err = err]
  ELSE [inc EXCEPT !.pc = "done", !.data = data,
                   !.err = IF err # NoErr /\ node.onerr = ErrorBehaviourContinue
                           THEN NoErr ELSE err]

IncUrl(i, pc) == IF pc \in {"src", "srcDo"} THEN NodeTab[i].src ELSE NodeTab[i].alt

\* Mutant: incSema is not consulted.
SemaAlwaysFree == TRUE

\* Whether a token may be sent on incSema.
SemaFree == incSema < opts.clientConcurrency

\* doInclude: the select takes p.incSema <- struct{}{}; the URL is
\* interpolated; if that fails the token is released and the error returned,
\* otherwise Client.Do is called.
IncAcquire(c, i) ==
  /\ incs[c][i].pc \in {"src", "alt"}
  /\ SemaFree
  /\ LET inc == incs[c][i]
         r == Interpolate(IncUrl(i, inc.pc))
     IN  IF r.err # NoErr
         THEN /\ incs' = [incs EXCEPT ![c][i] =
                            AfterDo(inc, NodeTab[i], inc.pc = "src", <<>>, r.err)]
              /\ UNCHANGED incSema
         ELSE /\ incs' = [incs EXCEPT
                            ![c][i].pc = IF inc.pc = "src" THEN "srcDo" ELSE "altDo",
                            ![c][i].urls = Append(@, r.s)]
              /\ incSema' = incSema + 1
  /\ UNCHANGED <<opts, docs, ctx, chans, walkers, cons, ret, evald, cancelled,
                 pool, parser, reader>>

\* doInclude: the select takes <-ctx.Done() and returns ctx.Err().
IncCtxDone(c, i) ==
  /\ incs[c][i].pc \in {"src", "alt"}
  /\ CtxDone(c, incs[c][i].ctx)
  /\ incs' = [incs EXCEPT ![c][i] =
                AfterDo(incs[c][i], NodeTab[i], incs[c][i].pc = "src", <<>>, Canceled)]
  /\ UNCHANGED <<opts, docs, incSema, ctx, chans, walkers, cons, ret, evald,
                 cancelled, pool, parser, reader>>

\* Mutant: the token is not released when Client.Do returns.
IncFinishLeak(c, i) ==
  /\ incs[c][i].pc \in {"srcDo", "altDo"}
  /\ LET inc == incs[c][i]
         r == ClientDo(inc.urls[Len(inc.urls)])
     IN  incs' = [incs EXCEPT ![c][i] =
                    AfterDo(inc, NodeTab[i], inc.pc = "srcDo", r.data, r.err)]
  /\ UNCHANGED <<opts, docs, incSema, ctx, chans, walkers, cons, ret, evald,
                 cancelled, pool, parser, reader>>

\* Client.Do returns; the deferred <-p.incSema releases the token.
IncFinish(c, i) ==
  /\ incs[c][i].pc \in {"srcDo", "altDo"}
  /\ LET inc == incs[c][i]
         r == ClientDo(inc.urls[Len(inc.urls)])
     IN  incs' = [incs EXCEPT ![c][i] =
                    AfterDo(inc, NodeTab[i], inc.pc = "srcDo", r.data, r.err)]
  /\ incSema' = incSema - 1
  /\ UNCHANGED <<opts, docs, ctx, chans, walkers, cons, ret, evald, cancelled,
                 pool, parser, reader>>

\* ------------------------------------------------- the writer goroutine

\* Mutant: the writer notes the error and goes on receiving.
ConsFailKeepsWriting(c, err) ==
  /\ cons' = [cons EXCEPT ![c].pc = "recv", ![c].cur = NoItem,
                          ![c].firstErr = IF @ = NoErr THEN err ELSE @]
  /\ UNCHANGED ctx

\* The writer goroutine returns with firstErr = err; its deferred cancel()
\* cancels Process's ctx.
ConsFail(c, err) ==
  /\ cons' = [cons EXCEPT ![c].pc = "done", ![c].firstErr = err,
                          ![c].cur = NoItem]
  /\ ctx' = [ctx EXCEPT ![c] = Cancel(@, 0)]

\* w.Write(data); totalWritten += n1
ConsWrite(c, data) ==
  /\ cons' = [cons EXCEPT ![c].pc = "recv", ![c].cur = NoItem,
                          ![c].out = @ \o data,
                          ![c].total = @ + Len(data)]
  /\ UNCHANGED ctx

\* case res, ok = <-resC with ok: wait returns at once for an item that
\* carries an error or no include.
ConsRecv(c) ==
  /\ cons[c].pc = "recv"
  /\ chans[c][0].buf # <<>>
  /\ LET item == Head(chans[c][0].buf)
     IN  IF item.err # NoErr THEN ConsFail(c, item.err)
         ELSE IF item.inc = 0 THEN ConsWrite(c, item.data)
         ELSE /\ cons' = [cons EXCEPT ![c].pc = "wait", ![c].cur = item]
              /\ UNCHANGED ctx
  /\ chans' = [chans EXCEPT ![c][0].buf = Tail(@)]
  /\ UNCHANGED <<opts, docs, incSema, walkers, incs, ret, evald, cancelled,
                 pool, parser, reader>>

\* case res, ok = <-resC with !ok: resC is closed and drained.
ConsClosed(c) ==
  /\ cons[c].pc = "recv"
  /\ chans[c][0].buf = <<>>
  /\ chans[c][0].closed
  /\ cons' = [cons EXCEPT ![c].pc = "done"]
  /\ ctx' = [ctx EXCEPT ![c] = Cancel(@, 0)]
  /\ UNCHANGED <<opts, docs, incSema, chans, walkers, incs, ret, evald,
                 cancelled, pool, parser, reader>>

\* case <-ctx.Done(): firstErr = ctx.Err()
ConsCtxDone(c) ==
  /\ cons[c].pc = "recv"
  /\ CtxDone(c, 0)
  /\ ConsFail(c, Canceled)
  /\ UNCHANGED <<opts, docs, incSema, chans, walkers, incs, ret, evald,
                 cancelled, pool, parser, reader>>

\* res.wait(ctx) for an item that carries an include.
ConsWait(c) ==
  /\ cons[c].pc = "wait"
  /\ \E case \in WaitReady(c, 0, cons[c].cur) :
       LET r == WaitResult(c, cons[c].cur, case)
       IN  IF r.err # NoErr THEN ConsFail(c, r.err) ELSE ConsWrite(c, r.data)
  /\ UNCHANGED <<opts, docs, incSema, chans, walkers, incs, ret, evald,
                 cancelled, pool, parser, reader>>

\* Process returning the running count whatever firstErr is.
ProcessReturnCountsWritten(c) ==
  /\ ret[c].st = "running"
  /\ walkers[c][0].st = "done"
  /\ cons[c].pc = "done"
  /\ ret' = [ret EXCEPT ![c] =
               [st |-> "returned",
                n |-> cons[c].total,
                err |-> cons[c].firstErr]]
  /\ UNCHANGED <<opts, docs, incSema, ctx, chans, walkers, incs, cons, evald,
                 cancelled, pool, parser, reader>>

\* Process returning as soon as the writer goroutine is done, without
\* wg.Wait() for the goroutine that iterates the nodes.
ProcessReturnNoWait(c) ==
  /\ ret[c].st = "running"
  /\ cons[c].pc = "done"
  /\ ret' = [ret EXCEPT ![c] =
               [st |-> "returned",
                n |-> IF cons[c].firstErr # NoErr THEN 0 ELSE cons[c].total,
                err |-> cons[c].firstErr]]
  /\ UNCHANGED <<opts, docs, incSema, ctx, chans, walkers, incs, cons, evald,
                 cancelled, pool, parser, reader>>

\* wg.Wait() returns once both goroutines are done; Process returns
\* (0, firstErr) or (totalWritten, nil).
ProcessReturn(c) ==
  /\ ret[c].st = "running"
  /\ walkers[c][0].st = "done"
  /\ cons[c].pc = "done"
  /\ ret' = [ret EXCEPT ![c] =
               [st |-> "returned",
                n |-> IF cons[c].firstErr # NoErr THEN 0 ELSE cons[c].total,
                err |-> cons[c].firstErr]]
  /\ UNCHANGED <<opts, docs, incSema, ctx, chans, walkers, incs, cons, evald,
                 cancelled, pool, parser, reader>>

\* The caller cancels the context it passed to Process (or its deadline
\* passes) while the call is in progress.
CallerCancel(c) ==
  /\ ret[c].st = "running"
  /\ ~cancelled[c]
  /\ cancelled' = [cancelled EXCEPT ![c] = TRUE]
  /\ ctx' = [ctx EXCEPT ![c] = Cancel(@, 0)]
  /\ UNCHANGED <<opts, docs, incSema, chans, walkers, incs, cons, ret, evald,
                 pool, parser, reader>>

\* ------------------------------------------------------- specifications

Walk(c, w) ==
  \/ StepRaw(c, w)
  \/ StepComment(c, w)
  \/ StepRemove(c, w)
  \/ StepUnsupported(c, w)
  \/ StepUnexpected(c, w)
  \/ SeqDone(c, w)
  \/ StartInclude(c, w)
  \/ SendInclude(c, w)
  \/ EnterChoose(c, w)
  \/ EvalWhen(c, w)
  \/ ChooseOtherwise(c, w)
  \/ StartTry(c, w)
  \/ TryRecv(c, w)
  \/ TryWait(c, w)
  \/ TryClosed(c, w)
  \/ TryFlush(c, w)
  \/ TryReturn(c, w)

Fetch(c, i) ==
  \/ IncAcquire(c, i)
  \/ IncCtxDone(c, i)
  \/ IncFinish(c, i)

Write(c) ==
  \/ ConsRecv(c)
  \/ ConsClosed(c)
  \/ ConsWait(c)

Next ==
  \E c \in Calls :
    \/ \E w \in CtxIds : Walk(c, w)
    \/ \E i \in IncIds : Fetch(c, i)
    \/ Write(c)
    \/ ProcessReturn(c)

\* One Process call, never cancelled by its caller: the writer's case
\* <-ctx.Done() is never ready, since only the caller and the writer's own
\* return cancel Process's ctx.
Spec == Init /\ [][Next]_vars

NextCancel ==
  \/ Next
  \/ \E c \in Calls : CallerCancel(c)
  \/ \E c \in Calls : ConsCtxDone(c)

\* All collaborators configured, under each concurrency limit.
FullOpts == {o \in AllOpts : o.client /\ o.evalFunc /\ o.interpolateFunc}

InitCancel == InitWith(FullOpts, DocsOver({1, 2, 6, 7, 8, 41, 44, 48}), {<<>>})

\* One Process call that its caller may cancel at any moment.
SpecCancel == InitCancel /\ [][NextCancel]_vars

InitMulti ==
  InitWith(FullOpts,
           {<<2, 6>>, <<3, 2>>, <<6>>, <<7>>, <<9>>, <<41, 44>>, <<48>>},
           {<<6>>, <<8>>})

\* Two Process calls active on the Processor at the same time.
SpecMulti == InitMulti /\ [][Next]_vars

\* The same under the scheduler's guarantee that a goroutine that can run does
\* run, and that every collaborator call returns.
SpecMultiLive == InitMulti /\ [][Next]_vars /\ WF_vars(Next)

\* The steps of the producer goroutine on a sequence of raw data and includes.
ProduceFlat(c) ==
  \/ StepRaw(c, 0)
  \/ StartInclude(c, 0)
  \/ SendInclude(c, 0)
  \/ SeqDone(c, 0)

NextSiblings ==
  \/ \E c \in Calls : ProduceFlat(c)
  \/ \E c \in Calls : \E i \in IncIds : Fetch(c, i)
  \/ \E c \in Calls : Write(c)
  \/ \E c \in Calls : ProcessReturn(c)

InitSiblings == InitWith(FullOpts, DocsOver({1, 2, 3, 4, 5}), {<<>>})

\* One Process call on sibling includes and raw data.  The scheduler runs the
\* producer and the writer goroutine whenever they can run; nothing is
\* assumed of the include goroutines: a Client.Do call may never return.
SpecSiblingsLive ==
  /\ InitSiblings
  /\ [][NextSiblings]_vars
  /\ \A c \in Calls : WF_vars(ProduceFlat(c)) /\ WF_vars(Write(c))

\* The URL for which the Client, instead of returning bytes at once, calls
\* Process on the Processor it was handed, with the fragment it fetched.
NestUrl == "/nest"

\* The fragments the Client may have fetched for NestUrl.
NestedDocs == {<<1>>, <<2>>, <<1, 2>>, <<3, 2>>}

\* The URL the include's goroutine has handed to Client.Do.
DoUrl(c, i) == incs[c][i].urls[Len(incs[c][i].urls)]

\* Client.Do for NestUrl, called by doInclude of call 1 with the token held:
\* it calls proc.Process(ctx, buf, fragment), which is call 2.
NestedDo(i, d) ==
  /\ incs[1][i].pc = "srcDo"
  /\ DoUrl(1, i) = NestUrl
  /\ ret[2].st = "unused"
  /\ incs' = [incs EXCEPT ![1][i].pc = "nested"]
  /\ docs' = [docs EXCEPT ![2] = d]
  /\ walkers' = [walkers EXCEPT ![2][0] =
                   [st |-> "run", stack |-> <<Frame("seq", 0)>>]]
  /\ cons' = [cons EXCEPT ![2].pc = "recv"]
  /\ ret' = [ret EXCEPT ![2].st = "running"]
  /\ UNCHANGED <<opts, incSema, ctx, chans, evald, cancelled, pool, parser,
                 reader>>

\* The inner Process has returned: Client.Do returns what it wrote and its
\* error, and doInclude's deferred <-p.incSema releases the token.
NestedReturn(i) ==
  /\ incs[1][i].pc = "nested"
  /\ ret[2].st = "returned"
  /\ incs' = [incs EXCEPT ![1][i] =
                AfterDo(incs[1][i], NodeTab[i], TRUE, cons[2].out, ret[2].err)]
  /\ incSema' = incSema - 1
  /\ UNCHANGED <<opts, docs, ctx, chans, walkers, cons, ret, evald, cancelled,
                 pool, parser, reader>>

\* Client.Do returns for a URL it fetches without calling Process.
FetchPlain(c, i) ==
  /\ incs[c][i].pc \in {"srcDo", "altDo"}
  /\ DoUrl(c, i) # NestUrl
  /\ IncFinish(c, i)

NextNested ==
  \/ \E c \in Calls : ProduceFlat(c)
  \/ \E c \in Calls : \E i \in IncIds : IncAcquire(c, i)
  \/ \E c \in Calls : \E i \in IncIds : IncCtxDone(c, i)
  \/ \E c \in Calls : \E i \in IncIds : FetchPlain(c, i)
  \/ \E i \in IncIds : \E d \in NestedDocs : NestedDo(i, d)
  \/ \E i \in IncIds : NestedReturn(i)
  \/ \E c \in Calls : Write(c)
  \/ \E c \in Calls : ProcessReturn(c)

InitNested == InitWith(FullOpts, {<<77>>, <<1, 77>>, <<77, 2>>}, {<<>>})

\* A Process call whose Client calls Process again during Client.Do, under
\* the scheduler's guarantee that a goroutine that can run does run and that
\* the upstream answers every fetch.
SpecNestedLive == InitNested /\ [][NextNested]_vars /\ WF_vars(NextNested)

\* ------------------------- the Processor with fetch workers and Release

\* The goroutines New starts, at most MaxLimit of them.
WorkerIds == 1..MaxLimit

\* The callers of Release.
Releasers == {1, 2}

\* The flat documents handed to the two Process calls of this Processor.
PoolDocs == {<<2>>, <<5, 1>>} \X {<<1, 2>>}

\* New(WithFetchConcurrency(n), WithFetchFunc(f)): the queue is empty, the
\* workers wait in queue.pop, nobody has called Process or Release.  A caller
\* with the empty document never calls Process.
NewPool(n, f, D) ==
  [made |-> TRUE,
   fetchConcurrency |-> n,
   fetchFunc |-> f,
   testFunc |-> TRUE,
   workerCtxDone |-> FALSE,
   cond |-> 0,
   items |-> <<>>,
   workers |-> [w \in WorkerIds |->
                  [pc |-> IF w <= n THEN "pop" ELSE "none", item |-> <<>>]],
   rel |-> [r \in Releasers |-> "idle"],
   callers |-> [c \in Calls |->
                  [pc |-> IF D[c] = <<>> THEN "none" ELSE "idle", nodes |-> D[c],
                   i |-> 1, out |-> <<>>, err |-> NoErr, late |-> FALSE,
                   ctxDone |-> FALSE,
                   stack |-> <<>>,
                   items |-> [k \in IncIds |->
                                [st |-> "none", data |-> <<>>, err |-> NoErr]]]]]

\* Release has returned to at least one of its callers.
Released == \E r \in Releasers : pool.rel[r] = "returned"

\* queue.signal: a token is put into cond unless it holds one.
Signal(q) == [q EXCEPT !.cond = 1]

\* Mutant: Process does not look at workerCtx.
PoolProcessStartAnyway(c) ==
  /\ pool.made
  /\ pool.callers[c].pc = "idle"
  /\ pool' = [pool EXCEPT !.callers[c].pc = "queue", !.callers[c].late = Released]
  /\ UNCHANGED <<procVars, parser, reader>>

\* Process: an error if workerCtx is done, else processNodes is entered.
PoolProcessStart(c) ==
  /\ pool.made
  /\ pool.callers[c].pc = "idle"
  /\ pool' = IF pool.workerCtxDone
             THEN [pool EXCEPT !.callers[c].pc = "returned",
                               !.callers[c].err = Canceled,
                               !.callers[c].late = Released]
             ELSE [pool EXCEPT !.callers[c].pc = "queue",
                               !.callers[c].late = Released]
  /\ UNCHANGED <<procVars, parser, reader>>

\* The includes among the children of the branches of the choose ch.
BranchIncludes(ch) ==
  {k \in IncIds :
     \E b \in (Range(NodeTab[ch].kids) \cup {NodeTab[ch].oth}) \ {0} :
       k \in Range(NodeTab[b].kids)}

\* queueFetchesFromNodes descending into a choose: the first include found
\* in its branches is queued as well.
PoolQueueDeep(c) ==
  /\ pool.made
  /\ pool.callers[c].pc = "queue"
  /\ LET cl == pool.callers[c]
     IN  pool' =
           IF cl.i > Len(cl.nodes)
           THEN [pool EXCEPT !.callers[c].pc = "node", !.callers[c].i = 1]
           ELSE IF NodeTab[cl.nodes[cl.i]].kind = "include"
           THEN [pool EXCEPT !.callers[c].pc = "signal",
                             !.callers[c].items[cl.nodes[cl.i]].st = "queued",
                             !.items = Append(@, <<c, cl.nodes[cl.i]>>)]
           ELSE IF /\ NodeTab[cl.nodes[cl.i]].kind = "choose"
                   /\ BranchIncludes(cl.nodes[cl.i]) # {}
           THEN LET k == CHOOSE k \in BranchIncludes(cl.nodes[cl.i]) :
                           \A j \in BranchIncludes(cl.nodes[cl.i]) : k <= j
                IN  [pool EXCEPT !.callers[c].pc = "signal",
                                 !.callers[c].items[k].st = "queued",
                                 !.items = Append(@, <<c, k>>)]
           ELSE [pool EXCEPT !.callers[c].i = @ + 1]
  /\ UNCHANGED <<procVars, parser, reader>>

\* queueFetchesFromNodes: the loop looks at one node; for an include
\* queueFetch makes the item and queue.push appends it.
PoolQueue(c) ==
  /\ pool.made
  /\ pool.callers[c].pc = "queue"
  /\ LET cl == pool.callers[c]
     IN  pool' =
           IF cl.i > Len(cl.nodes)
           THEN [pool EXCEPT !.callers[c].pc = "node", !.callers[c].i = 1]
           ELSE IF NodeTab[cl.nodes[cl.i]].kind = "include"
           THEN [pool EXCEPT !.callers[c].pc = "signal",
                             !.callers[c].items[cl.nodes[cl.i]].st = "queued",
                             !.items = Append(@, <<c, cl.nodes[cl.i]>>)]
           ELSE [pool EXCEPT !.callers[c].i = @ + 1]
  /\ UNCHANGED <<procVars, parser, reader>>

\* queue.push: q.signal() after the item was appended.
PoolSignal(c) ==
  /\ pool.made
  /\ pool.callers[c].pc = "signal"
  /\ pool' = [Signal(pool) EXCEPT !.callers[c].pc = "queue",
                                  !.callers[c].i = @ + 1]
  /\ UNCHANGED <<procVars, parser, reader>>

\* The caller of Process cancels the context it passed.
PoolCallerCancel(c) ==
  /\ pool.made
  /\ pool.callers[c].pc \in {"queue", "signal", "node"}
  /\ ~pool.callers[c].ctxDone
  /\ pool' = [pool EXCEPT !.callers[c].ctxDone = TRUE]
  /\ UNCHANGED <<procVars, parser, reader>>

\* processNode for an include: the cases of its select that are ready, with
\* the error each yields.
IncludeReady(cl) ==
  (IF cl.ctxDone THEN {[data |-> <<>>, err |-> Canceled]} ELSE {})
  \cup (IF cl.items[cl.nodes[cl.i]].st = "done"
        THEN {[data |-> cl.items[cl.nodes[cl.i]].data,
               err |-> cl.items[cl.nodes[cl.i]].err]}
        ELSE {})

RECURSIVE PoolTest(_, _)
\* case *esi.ChooseElement: the loop over v.When from index i on.  It yields
\* the error it returns, or the branch whose nodes processNodes is entered
\* with (0 for none).
PoolTest(ch, i) ==
  IF i > Len(NodeTab[ch].kids)
  THEN [err |-> NoErr, branch |-> NodeTab[ch].oth]
  ELSE IF ~pool.testFunc
  THEN [err |-> UnsupportedElementError(NodeTab[ch].kids[i]), branch |-> 0]
  ELSE IF EvalFunc(NodeTab[NodeTab[ch].kids[i]].test).err # NoErr
  THEN [err |-> EvalFunc(NodeTab[NodeTab[ch].kids[i]].test).err, branch |-> 0]
  ELSE IF EvalFunc(NodeTab[NodeTab[ch].kids[i]].test).val = "true"
  THEN [err |-> NoErr, branch |-> NodeTab[ch].kids[i]]
  ELSE PoolTest(ch, i + 1)

\* processNode for a choose in the caller cl: the error is returned, or the
\* loop goes on if no branch was chosen, or processNodes is entered with the
\* branch's nodes, to return to the node after the choose.
PoolChoose(c, cl, r) ==
  IF r.err # NoErr
  THEN [pool EXCEPT !.callers[c].pc = "returned", !.callers[c].err = r.err]
  ELSE IF r.branch = 0
  THEN [pool EXCEPT !.callers[c].i = @ + 1]
  ELSE [pool EXCEPT !.callers[c].pc = "queue",
                    !.callers[c].stack =
                       Append(@, [nodes |-> cl.nodes, i |-> cl.i + 1]),
                    !.callers[c].nodes = NodeTab[r.branch].kids,
                    !.callers[c].i = 1]

\* processNodes returns nil: Process returns, or the processNodes that
\* entered it for a choose returns nil to the loop it was called from.
PoolSeqDone(c, cl) ==
  IF cl.stack = <<>>
  THEN [pool EXCEPT !.callers[c].pc = "returned"]
  ELSE [pool EXCEPT !.callers[c].stack = Pop(@),
                    !.callers[c].nodes = Top(cl.stack).nodes,
                    !.callers[c].i = Top(cl.stack).i]

\* processNodes: the loop processes one node.  Raw data is written; an
\* include waits for its item to be done or for ctx, then its data is written,
\* or its error is returned unless onerror is continue; a choose is tested.
PoolNode(c) ==
  /\ pool.made
  /\ pool.callers[c].pc = "node"
  /\ LET cl == pool.callers[c]
         node == NodeTab[cl.nodes[cl.i]]
     IN  IF cl.i > Len(cl.nodes)
         THEN pool' = PoolSeqDone(c, cl)
         ELSE IF node.kind = "raw"
         THEN pool' = [pool EXCEPT !.callers[c].out = @ \o node.bytes,
                                   !.callers[c].i = @ + 1]
         ELSE IF node.kind = "choose"
         THEN pool' = PoolChoose(c, cl, PoolTest(cl.nodes[cl.i], 1))
         ELSE \E r \in IncludeReady(cl) :
                pool' =
                  IF r.err = NoErr
                  THEN [pool EXCEPT !.callers[c].out = @ \o r.data,
                                    !.callers[c].i = @ + 1]
                  ELSE IF node.onerr = ErrorBehaviourContinue
                  THEN [pool EXCEPT !.callers[c].i = @ + 1]
                  ELSE [pool EXCEPT !.callers[c].pc = "returned",
                                    !.callers[c].err = r.err]
  /\ UNCHANGED <<procVars, parser, reader>>

\* queue.pop: the cases of its select that are ready.
PopReady ==
  (IF pool.workerCtxDone THEN {"done"} ELSE {})
  \cup (IF pool.cond = 1 THEN {"cond"} ELSE {})

\* queue.pop: the select takes <-done, and the worker returns, or <-q.cond.
WorkerSelect(w) ==
  /\ pool.made
  /\ pool.workers[w].pc = "pop"
  /\ \E case \in PopReady :
       pool' = IF case = "done"
               THEN [pool EXCEPT !.workers[w].pc = "exited"]
               ELSE [pool EXCEPT !.workers[w].pc = "locked", !.cond = 0]
  /\ UNCHANGED <<procVars, parser, reader>>

\* queue.pop taking the last item of the queue instead of the first.
WorkerTakeLast(w) ==
  /\ pool.made
  /\ pool.workers[w].pc = "locked"
  /\ pool' =
       IF pool.items = <<>>
       THEN [pool EXCEPT !.workers[w].pc = "pop"]
       ELSE [pool EXCEPT
               !.items = Pop(@),
               !.workers[w] =
                  [pc |-> IF Len(pool.items) > 1 THEN "more" ELSE "taken",
                   item |-> Top(pool.items)]]
  /\ UNCHANGED <<procVars, parser, reader>>

\* queue.pop under itemsMu: back to the select if there is no item, else the
\* first item is taken, and whether more are left is noted.
WorkerTake(w) ==
  /\ pool.made
  /\ pool.workers[w].pc = "locked"
  /\ pool' =
       IF pool.items = <<>>
       THEN [pool EXCEPT !.workers[w].pc = "pop"]
       ELSE [pool EXCEPT
               !.items = Tail(@),
               !.workers[w] =
                  [pc |-> IF Len(pool.items) > 1 THEN "more" ELSE "taken",
                   item |-> Head(pool.items)]]
  /\ UNCHANGED <<procVars, parser, reader>>

\* queue.pop returning without q.signal() although more items are left.
WorkerSignalNever(w) ==
  /\ pool.made
  /\ pool.workers[w].pc = "more"
  /\ pool' = [pool EXCEPT !.workers[w].pc = "taken"]
  /\ UNCHANGED <<procVars, parser, reader>>

\* queue.pop after the unlock: if more { q.signal() }, then pop returns.
WorkerSignal(w) ==
  /\ pool.made
  /\ pool.workers[w].pc = "more"
  /\ pool' = [Signal(pool) EXCEPT !.workers[w].pc = "taken"]
  /\ UNCHANGED <<procVars, parser, reader>>

\* The item a worker holds is done with (data, err).
ItemDone(w, data, err) ==
  LET it == pool.workers[w].item
  IN  [pool EXCEPT !.workers[w] = [pc |-> "pop", item |-> <<>>],
                   !.callers[it[1]].items[it[2]] =
                      [st |-> "done", data |-> data, err |-> err]]

\* process, fetchNow: without a FetchFunc the include is unsupported; if the
\* item's ctx is done (its Process call has returned or the caller has
\* cancelled) ctx.Err() is the result;
\* otherwise the FetchFunc is called.
WorkerProcess(w) ==
  /\ pool.made
  /\ pool.workers[w].pc = "taken"
  /\ LET it == pool.workers[w].item
         cl == pool.callers[it[1]]
     IN  pool' =
           IF ~pool.fetchFunc
           THEN ItemDone(w, <<>>, UnsupportedElementError(it[2]))
           ELSE IF cl.pc = "returned" \/ cl.ctxDone
           THEN ItemDone(w, <<>>, Canceled)
           ELSE [pool EXCEPT !.workers[w].pc = "fetch"]
  /\ UNCHANGED <<procVars, parser, reader>>

\* fetchNow: what the FetchFunc yields for inc.Source and, if that failed and
\* there is an alt, for inc.Alt.
FetchNow(node) ==
  IF ClientDo(node.src).err = NoErr \/ node.alt = ""
  THEN ClientDo(node.src)
  ELSE ClientDo(node.alt)

\* The FetchFunc returns; close(item.done).
WorkerFetched(w) ==
  /\ pool.made
  /\ pool.workers[w].pc = "fetch"
  /\ LET it == pool.workers[w].item
         r == FetchNow(NodeTab[it[2]])
     IN  pool' = ItemDone(w, IF r.err = NoErr THEN r.data ELSE <<>>, r.err)
  /\ UNCHANGED <<procVars, parser, reader>>

\* Release: p.workerCancel()
ReleaseCancel(r) ==
  /\ pool.made
  /\ pool.rel[r] = "idle"
  /\ pool' = [pool EXCEPT !.rel[r] = "wait", !.workerCtxDone = TRUE]
  /\ UNCHANGED <<procVars, parser, reader>>

\* Mutant: Release returns without waiting for the workers.
ReleaseNoWait(r) ==
  /\ pool.made
  /\ pool.rel[r] = "wait"
  /\ pool' = [pool EXCEPT !.rel[r] = "returned"]
  /\ UNCHANGED <<procVars, parser, reader>>

\* Release: p.workerWg.Wait() returns once every worker has returned.
ReleaseWait(r) ==
  /\ pool.made
  /\ pool.rel[r] = "wait"
  /\ \A w \in WorkerIds : pool.workers[w].pc \in {"none", "exited"}
  /\ pool' = [pool EXCEPT !.rel[r] = "returned"]
  /\ UNCHANGED <<procVars, parser, reader>>

NextRelease ==
  \/ \E c \in Calls : PoolProcessStart(c)
  \/ \E c \in Calls : PoolQueue(c)
  \/ \E c \in Calls : PoolSignal(c)
  \/ \E c \in Calls : PoolNode(c)
  \/ \E c \in Calls : PoolCallerCancel(c)
  \/ \E w \in WorkerIds : WorkerSelect(w)
  \/ \E w \in WorkerIds : WorkerTake(w)
  \/ \E w \in WorkerIds : WorkerSignal(w)
  \/ \E w \in WorkerIds : WorkerProcess(w)
  \/ \E w \in WorkerIds : WorkerFetched(w)
  \/ \E r \in Releasers : ReleaseCancel(r)
  \/ \E r \in Releasers : ReleaseWait(r)

InitRelease ==
  /\ InitProc(FullOpts, {<<>>}, {<<>>})
  /\ opts.clientConcurrency = 1
  /\ parser = NoParser
  /\ reader = NoReader
  /\ \E n \in 1..MaxLimit : \E f \in BOOLEAN :
       \E D \in PoolDocs : pool = NewPool(n, f, D)

\* One Processor with fetch workers, two Process calls and two Release calls
\* that start at any moment.
SpecRelease == InitRelease /\ [][NextRelease]_vars

\* The documents of the two Process calls that fill the fetch queue: up to
\* four includes are pushed by two callers.
QueueDocs == {<<2, 5>>, <<3>>} \X {<<4, 1, 2>>, <<>>}

InitQueue ==
  /\ InitProc(FullOpts, {<<>>}, {<<>>})
  /\ opts.clientConcurrency = 1
  /\ parser = NoParser
  /\ reader = NoReader
  /\ \E n \in 1..MaxLimit : \E D \in QueueDocs : pool = NewPool(n, TRUE, D)

\* The steps of a Process call on the Processor with fetch workers.
PoolCall(c) ==
  \/ PoolQueue(c)
  \/ PoolSignal(c)
  \/ PoolNode(c)

\* The steps of a worker goroutine.
Worker(w) ==
  \/ WorkerSelect(w)
  \/ WorkerTake(w)
  \/ WorkerSignal(w)
  \/ WorkerProcess(w)
  \/ WorkerFetched(w)

NextQueue ==
  \/ \E c \in Calls : PoolProcessStart(c)
  \/ \E c \in Calls : PoolCall(c)
  \/ \E c \in Calls : PoolCallerCancel(c)
  \/ \E w \in WorkerIds : Worker(w)

\* Process calls pushing to the fetch queue and workers popping from it, with
\* Release never called.
SpecQueue == InitQueue /\ [][NextQueue]_vars

\* Fewer pushes: three includes from two callers, or two from one.
QueueLiveDocs == {<<2, 5>>} \X {<<3>>, <<>>}

InitQueueLive ==
  /\ InitProc(FullOpts, {<<>>}, {<<>>})
  /\ opts.clientConcurrency = 1
  /\ parser = NoParser
  /\ reader = NoReader
  /\ \E n \in 1..MaxLimit : \E D \in QueueLiveDocs :
       pool = NewPool(n, TRUE, D)

\* The same under the scheduler's guarantee that a goroutine that can run does
\* run (each worker, and each caller once inside Process), and that the
\* FetchFunc returns.
SpecQueueLive ==
  /\ InitQueueLive
  /\ [][NextQueue]_vars
  /\ \A c \in Calls : WF_vars(PoolCall(c))
  /\ \A w \in WorkerIds : WF_vars(Worker(w))

\* The documents with a choose whose branches hold includes.
ChooseDocs == DocsOver({1, 2, 62, 72})

\* The same for the two Process calls of a Processor with fetch workers.
ChoosePoolDocs == {<<62, 2>>, <<72>>} \X {<<>>, <<72>>}

\* New with fetch workers, with or without a TestFunc.
InitChoosePool ==
  \E n \in 1..MaxLimit : \E f \in BOOLEAN : \E t \in BOOLEAN :
    \E D \in ChoosePoolDocs : pool = [NewPool(n, f, D) EXCEPT !.testFunc = t]

\* Either a Processor that fetches through incSema with one Process call, or
\* a Processor with fetch workers and its calls, or the two side by side.
InitChoose ==
  /\ parser = NoParser
  /\ reader = NoReader
  /\ \/ InitProc(AllOpts, ChooseDocs, {<<>>}) /\ pool = NoPool
     \/ /\ InitProc(FullOpts, {<<>>}, {<<>>})
        /\ opts.clientConcurrency = 1
        /\ InitChoosePool
     \/ /\ InitProc(FullOpts, {<<72>>}, {<<>>})
        /\ opts.clientConcurrency = 1
        /\ pool = NewPool(1, TRUE, <<<<72>>, <<>>>>)

NextChoose ==
  \/ \E c \in Calls : StepRaw(c, 0)
  \/ \E c \in Calls : SeqDone(c, 0)
  \/ \E c \in Calls : StartInclude(c, 0)
  \/ \E c \in Calls : SendInclude(c, 0)
  \/ \E c \in Calls : EnterChoose(c, 0)
  \/ \E c \in Calls : EvalWhen(c, 0)
  \/ \E c \in Calls : ChooseOtherwise(c, 0)
  \/ \E c \in Calls : \E i \in IncIds : Fetch(c, i)
  \/ \E c \in Calls : Write(c)
  \/ \E c \in Calls : ConsCtxDone(c)
  \/ \E c \in Calls : CallerCancel(c)
  \/ \E c \in Calls : ProcessReturn(c)
  \/ \E c \in Calls : PoolProcessStart(c)
  \/ \E c \in Calls : PoolQueue(c)
  \/ \E c \in Calls : PoolSignal(c)
  \/ \E c \in Calls : PoolNode(c)
  \/ \E c \in Calls : PoolCallerCancel(c)
  \/ \E w \in WorkerIds : WorkerSelect(w)
  \/ \E w \in WorkerIds : WorkerTake(w)
  \/ \E w \in WorkerIds : WorkerSignal(w)
  \/ \E w \in WorkerIds : WorkerProcess(w)
  \/ \E w \in WorkerIds : WorkerFetched(w)

\* Process calls on documents whose choose branches hold includes, on either
\* kind of Processor.
SpecChoose == InitChoose /\ [][NextChoose]_vars

\* ------------------------------------------------------------ the Parser

\* The most tokens the reader hands to the parser in one parse.
MaxToks == 6

\* The most tokens in one parse when the reader yields every kind of tag.
MaxTagToks == 3

\* The element names that open a scope in the token alphabet.
ScopeNames == {"try", "attempt", "except", "choose", "when", "otherwise",
               "remove", "inline", "vars"}

\* esixml.Attr: an attribute with the namespace and local part of its name.
Attr(space, local, value) == [space |-> space, local |-> local, value |-> value]

\* The attributes a start tag needs to be accepted.
Required(name) ==
  CASE name = "when" -> {Attr("", "test", "t")}
    [] name = "comment" -> {Attr("", "text", "c")}
    [] name = "include" -> {Attr("", "src", "/x")}
    [] name = "inline" -> {Attr("", "name", "n"), Attr("", "fetchable", "yes")}
    [] OTHER -> {}

\* esixml.Token: a start element (Closed for <x/>, with its attributes), an
\* end element, or data.
StartTok(name, closed, attr) ==
  [type |-> "start", name |-> name, closed |-> closed, attr |-> attr]

EndTok(name) == [type |-> "end", name |-> name, closed |-> FALSE, attr |-> {}]

DataTok == [type |-> "data", name |-> "", closed |-> FALSE, attr |-> {}]

NoTok == [type |-> "invalid", name |-> "", closed |-> FALSE, attr |-> {}]

\* The attribute lists of the start tags in the alphabet that lack a
\* required attribute, carry it in a namespace only, or carry a bad value.
BadAttrs ==
  [when |-> {{}, {Attr("x", "test", "t")}},
   comment |-> {{}, {Attr("x", "text", "c")}},
   include |-> {{}, {Attr("x", "src", "/x")},
                {Attr("", "src", "/x"), Attr("", "onerror", "")},
                {Attr("", "src", "/x"), Attr("", "onerror", "abort")},
                {Attr("", "onerror", "abort")}},
   inline |-> {{Attr("", "fetchable", "yes")}, {Attr("", "name", "n")},
               {Attr("", "name", "n"), Attr("x", "fetchable", "yes")},
               {Attr("", "name", "n"), Attr("", "fetchable", "maybe")}}]

\* The tokens of documents made of well-formed tags: the start and end tags
\* of the elements with a body, a comment, and data.
Tokens ==
  {StartTok(n, FALSE, Required(n)) : n \in ScopeNames \ {"vars"}}
  \cup {StartTok("comment", TRUE, Required("comment"))}
  \cup {EndTok(n) : n \in ScopeNames \ {"vars"}}
  \cup {DataTok}

\* Every kind of tag: the well-formed ones, the same tags self-closed or not
\* where that is an error, start tags with bad attributes, stray end tags.
TagTokens ==
  Tokens
  \cup {StartTok(n, c, Required(n)) :
          n \in ScopeNames \cup {"comment", "include"}, c \in BOOLEAN}
  \cup {StartTok("include", TRUE,
                 Required("include") \cup {Attr("", "onerror", "continue"),
                                          Attr("", "alt", "/y")}),
        StartTok("inline", FALSE,
                 {Attr("", "name", "n"), Attr("", "fetchable", "no")})}
  \cup UNION {{StartTok(n, n \in {"comment", "include"}, a) : a \in BadAttrs[n]} :
                n \in DOMAIN BadAttrs}
  \cup {StartTok("inline", TRUE, a) : a \in BadAttrs.inline}
  \cup {EndTok(n) : n \in ScopeNames \cup {"comment"}}

\* A parser error of the given Go type, with its Position (the index of the
\* token it points at) and Name.
ParseError(type, pos, name) == [type |-> type, pos |-> pos, name |-> name]

NoParseError == ParseError("nil", 0, "")

EOF == ParseError("io.EOF", 0, "")

\* UnexpectedEndElementError with the name of the open element, "" if none.
UnexpectedEndElementError(pos, name, expected) ==
  [type |-> "UnexpectedEndElementError", pos |-> pos, name |-> name,
   expected |-> expected]

\* InvalidAttributeValueError for an attribute of the element name.
InvalidAttributeValueError(pos, name, attr, value, allowed) ==
  [type |-> "InvalidAttributeValueError", pos |-> pos, name |-> name,
   attr |-> attr, value |-> value, allowed |-> allowed]

\* MissingAttributeError for an attribute of the element name.
MissingAttributeError(pos, name, attr) ==
  [type |-> "MissingAttributeError", pos |-> pos, name |-> name, attr |-> attr]

\* A node on the stack or yielded by Next: its element name ("" for raw data),
\* its Position (pos: the token it starts with, end: the token it ends
\* with) and its children.
PNode(kind, pos, nodes) ==
  [kind |-> kind, pos |-> pos, end |-> pos, nodes |-> nodes]

\* Mutant: takeAttr takes the attribute of that local name in any namespace.
takeAttrAnySpace(attr, name) ==
  IF \E a \in attr : a.local = name
  THEN [ok |-> TRUE, value |-> (CHOOSE a \in attr : a.local = name).value]
  ELSE [ok |-> FALSE, value |-> ""]

\* takeAttr: the attribute of that local name and no namespace, if any.
takeAttr(attr, name) ==
  IF \E a \in attr : a.space = "" /\ a.local = name
  THEN [ok |-> TRUE,
        value |-> (CHOOSE a \in attr : a.space = "" /\ a.local = name).value]
  ELSE [ok |-> FALSE, value |-> ""]

\* The nil that marks the start of a scope on the stack, and the nil that
\* currentScope returns.
NilNode == PNode("nil", 0, <<>>)

\* NewParser, Reset; again counts the calls of Next after one returned an
\* error.
NewParser ==
  [made |-> TRUE, pos |-> 0, tok |-> NoTok, stack |-> <<>>,
   err |-> NoParseError, ret |-> NoParseError, out |-> <<>>, again |-> 0]

\* The positions of the nil markers that currentScope looks at.
ScopeMarks(stack) == {i \in 2..Len(stack) : stack[i] = NilNode}

Max(S) == CHOOSE x \in S : \A y \in S : y <= x

\* Mutant: currentScope returns the outermost open scope.
currentScopeOutermost(stack) ==
  IF ScopeMarks(stack) = {} THEN NilNode
  ELSE stack[(CHOOSE x \in ScopeMarks(stack) :
                \A y \in ScopeMarks(stack) : x <= y) - 1]

\* currentScope: the node before the last nil marker, nil if there is none.
currentScope(stack) ==
  IF ScopeMarks(stack) = {} THEN NilNode
  ELSE stack[Max(ScopeMarks(stack)) - 1]

\* exitScope: the stack is cut at the last nil marker; what was above it are
\* the children.
exitScope(stack) ==
  LET i == Max({k \in 1..Len(stack) : stack[k] = NilNode})
  IN  [stack |-> SubSeq(stack, 1, i - 1),
       nodes |-> SubSeq(stack, i + 1, Len(stack))]

\* Mutant: the node on top of the stack is returned whatever is below it.
popIfRootAtAnyDepth(p) ==
  IF p.stack = <<>> THEN p
  ELSE [p EXCEPT !.stack = SubSeq(@, 1, Len(@) - 1),
                 !.out = Append(@, p.stack[Len(p.stack)])]

\* popIfRoot: a stack of exactly one node is emptied and the node returned.
popIfRoot(p) ==
  IF Len(p.stack) # 1 THEN p
  ELSE [p EXCEPT !.stack = <<>>, !.out = Append(@, p.stack[1])]

\* pushScope
pushScope(p, node) == [p EXCEPT !.stack = @ \o <<node, NilNode>>]

\* pushNestedOrReturn: the node is returned at top level, pushed otherwise.
pushNestedOrReturn(p, node) ==
  IF p.stack = <<>> THEN [p EXCEPT !.out = Append(@, node)]
  ELSE [p EXCEPT !.stack = Append(@, node)]

\* A state function returns err.
Fail(p, err) == [p EXCEPT !.err = err, !.ret = err]

\* Mutant: a self-closed attempt or except is refused as an empty element.
parseTryChildNotEmpty(p, tok) ==
  IF currentScope(p.stack).kind # "try"
  THEN Fail(p, ParseError("UnexpectedElementError", p.pos, tok.name))
  ELSE IF tok.closed
  THEN Fail(p, ParseError("EmptyElementError", p.pos, tok.name))
  ELSE pushScope(p, PNode(tok.name, p.pos, <<>>))

\* parseAttemptElement, parseExceptElement: inside a try only.
parseTryChild(p, tok) ==
  IF currentScope(p.stack).kind # "try"
  THEN Fail(p, ParseError("UnexpectedElementError", p.pos, tok.name))
  ELSE pushScope(p, PNode(tok.name, p.pos, <<>>))

\* parseOtherwiseElement: inside a choose only.
parseOtherwiseElement(p, tok) ==
  IF currentScope(p.stack).kind # "choose"
  THEN Fail(p, ParseError("UnexpectedElementError", p.pos, tok.name))
  ELSE pushScope(p, PNode(tok.name, p.pos, <<>>))

\* parseWhenElement: inside a choose only, and with a test attribute.
parseWhenElement(p, tok) ==
  IF currentScope(p.stack).kind # "choose"
  THEN Fail(p, ParseError("UnexpectedElementError", p.pos, tok.name))
  ELSE IF ~takeAttr(tok.attr, "test").ok
  THEN Fail(p, MissingAttributeError(p.pos, tok.name, "test"))
  ELSE pushScope(p, PNode(tok.name, p.pos, <<>>))

\* Mutant: a self-closed tag opens a scope like any other.
parseContainerAnyway(p, tok) == pushScope(p, PNode(tok.name, p.pos, <<>>))

\* parseChooseElement, parseRemoveElement, parseTryElement, parseVarsElement
parseContainer(p, tok) ==
  IF tok.closed
  THEN Fail(p, ParseError("EmptyElementError", p.pos, tok.name))
  ELSE pushScope(p, PNode(tok.name, p.pos, <<>>))

\* parseInlineElement
parseInlineElement(p, tok) ==
  IF ~takeAttr(tok.attr, "name").ok
  THEN Fail(p, MissingAttributeError(p.pos, tok.name, "name"))
  ELSE IF ~takeAttr(tok.attr, "fetchable").ok
  THEN Fail(p, MissingAttributeError(p.pos, tok.name, "fetchable"))
  ELSE IF takeAttr(tok.attr, "fetchable").value \notin {"no", "yes"}
  THEN Fail(p, InvalidAttributeValueError(
                 p.pos, tok.name, "fetchable",
                 takeAttr(tok.attr, "fetchable").value, {"no", "yes"}))
  ELSE IF tok.closed
  THEN Fail(p, ParseError("EmptyElementError", p.pos, tok.name))
  ELSE pushScope(p, PNode(tok.name, p.pos, <<>>))

\* parseCommentElement
parseCommentElement(p, tok) ==
  IF ~tok.closed
  THEN Fail(p, ParseError("UnclosedElementError", p.pos, tok.name))
  ELSE IF ~takeAttr(tok.attr, "text").ok
  THEN Fail(p, MissingAttributeError(p.pos, tok.name, "text"))
  ELSE pushNestedOrReturn(p, PNode(tok.name, p.pos, <<>>))

\* parseIncludeElement
parseIncludeElement(p, tok) ==
  IF ~tok.closed
  THEN Fail(p, ParseError("UnclosedElementError", p.pos, tok.name))
  ELSE IF /\ takeAttr(tok.attr, "onerror").ok
          /\ takeAttr(tok.attr, "onerror").value # ErrorBehaviourContinue
  THEN Fail(p, InvalidAttributeValueError(
                 p.pos, tok.name, "onerror",
                 takeAttr(tok.attr, "onerror").value, {ErrorBehaviourContinue}))
  ELSE IF ~takeAttr(tok.attr, "src").ok
  THEN Fail(p, MissingAttributeError(p.pos, tok.name, "src"))
  ELSE pushNestedOrReturn(p, PNode(tok.name, p.pos, <<>>))

\* parseElement and the state function it selects
parseElement(p, tok) ==
  CASE tok.name \in {"attempt", "except"} -> parseTryChild(p, tok)
    [] tok.name = "otherwise" -> parseOtherwiseElement(p, tok)
    [] tok.name = "when" -> parseWhenElement(p, tok)
    [] tok.name \in {"choose", "remove", "try", "vars"} -> parseContainer(p, tok)
    [] tok.name = "inline" -> parseInlineElement(p, tok)
    [] tok.name = "comment" -> parseCommentElement(p, tok)
    [] tok.name = "include" -> parseIncludeElement(p, tok)
    [] OTHER -> Fail(p, ParseError("InvalidElementError", p.pos, tok.name))

\* The children of the given element name, in order.
OfKind(nodes, kind) == SelectSeq(nodes, LAMBDA n : n.kind = kind)

\* The element at the top of the stack is closed with the given children.
Closed(p, st, nodes) ==
  [p EXCEPT !.stack = [st EXCEPT ![Len(st)].nodes = nodes,
                                 ![Len(st)].end = p.pos]]

\* Mutant: a choose keeps every node of its scope.
parseChooseElementEndKeepsAll(p) ==
  LET x == exitScope(p.stack)
  IN  IF Len(OfKind(x.nodes, "otherwise")) > 1
      THEN Fail([p EXCEPT !.stack = x.stack],
                ParseError("DuplicateElementError",
                           OfKind(x.nodes, "otherwise")[2].pos, "otherwise"))
      ELSE IF OfKind(x.nodes, "when") = <<>>
      THEN Fail([p EXCEPT !.stack = x.stack],
                ParseError("MissingElementError", p.pos, "when"))
      ELSE popIfRoot(Closed(p, x.stack, x.nodes))

\* parseChooseElementEnd: the when and otherwise children are kept; a second
\* otherwise and a choose without when are errors.
parseChooseElementEnd(p) ==
  LET x == exitScope(p.stack)
  IN  IF Len(OfKind(x.nodes, "otherwise")) > 1
      THEN Fail([p EXCEPT !.stack = x.stack],
                ParseError("DuplicateElementError",
                           OfKind(x.nodes, "otherwise")[2].pos, "otherwise"))
      ELSE IF OfKind(x.nodes, "when") = <<>>
      THEN Fail([p EXCEPT !.stack = x.stack],
                ParseError("MissingElementError", p.pos, "when"))
      ELSE popIfRoot(Closed(p, x.stack,
                            OfKind(x.nodes, "when") \o OfKind(x.nodes, "otherwise")))

\* The first node that parseTryElementEnd finds to be a duplicate, if any:
\* the second attempt or the second except, whichever comes first.
TryDuplicates(nodes) ==
  {i \in 1..Len(nodes) :
     /\ nodes[i].kind \in {"attempt", "except"}
     /\ \E j \in 1..(i - 1) : nodes[j].kind = nodes[i].kind}

\* Mutant: a try is closed without looking for its except.
parseTryElementEndNoExcept(p) ==
  LET x == exitScope(p.stack)
      q == [p EXCEPT !.stack = x.stack]
  IN  IF TryDuplicates(x.nodes) # {}
      THEN LET d == x.nodes[CHOOSE i \in TryDuplicates(x.nodes) :
                                \A j \in TryDuplicates(x.nodes) : i <= j]
           IN  Fail(q, ParseError("DuplicateElementError", d.pos, d.kind))
      ELSE IF OfKind(x.nodes, "attempt") = <<>>
      THEN Fail(q, ParseError("MissingElementError", p.pos, "attempt"))
      ELSE popIfRoot(Closed(p, x.stack,
                            OfKind(x.nodes, "attempt") \o OfKind(x.nodes, "except")))

\* parseTryElementEnd
parseTryElementEnd(p) ==
  LET x == exitScope(p.stack)
      q == [p EXCEPT !.stack = x.stack]
  IN  IF TryDuplicates(x.nodes) # {}
      THEN LET d == x.nodes[CHOOSE i \in TryDuplicates(x.nodes) :
                                \A j \in TryDuplicates(x.nodes) : i <= j]
           IN  Fail(q, ParseError("DuplicateElementError", d.pos, d.kind))
      ELSE IF OfKind(x.nodes, "attempt") = <<>>
      THEN Fail(q, ParseError("MissingElementError", p.pos, "attempt"))
      ELSE IF OfKind(x.nodes, "except") = <<>>
      THEN Fail(q, ParseError("MissingElementError", p.pos, "except"))
      ELSE popIfRoot(Closed(p, x.stack,
                            OfKind(x.nodes, "attempt") \o OfKind(x.nodes, "except")))

\* parseAttemptElementEnd, parseExceptElementEnd, parseOtherwiseElementEnd,
\* parseWhenElementEnd: the element keeps its children and stays on the stack.
parseNestedEnd(p) ==
  LET x == exitScope(p.stack) IN Closed(p, x.stack, x.nodes)

\* parseInlineElementEnd, parseRemoveElementEnd, parseVarsElementEnd
parseContainerEnd(p) ==
  LET x == exitScope(p.stack) IN popIfRoot(Closed(p, x.stack, x.nodes))

\* Mutant: an end tag is taken for the end of whatever scope is open.
parseEndElementAnyName(p, tok) ==
  IF currentScope(p.stack) = NilNode
  THEN Fail(p, UnexpectedEndElementError(p.pos, tok.name, ""))
  ELSE CASE tok.name = "choose" -> parseChooseElementEnd(p)
         [] tok.name = "try" -> parseTryElementEnd(p)
         [] tok.name \in {"attempt", "except", "otherwise", "when"} ->
              parseNestedEnd(p)
         [] tok.name \in {"inline", "remove", "vars"} -> parseContainerEnd(p)
         [] OTHER -> Fail(p, ParseError("InvalidElementError", p.pos, tok.name))

\* parseEndElement and the state function it selects
parseEndElement(p, tok) ==
  IF currentScope(p.stack) = NilNode
  THEN Fail(p, UnexpectedEndElementError(p.pos, tok.name, ""))
  ELSE IF currentScope(p.stack).kind # tok.name
  THEN Fail(p, UnexpectedEndElementError(p.pos, tok.name,
                                         currentScope(p.stack).kind))
  ELSE CASE tok.name = "choose" -> parseChooseElementEnd(p)
         [] tok.name = "try" -> parseTryElementEnd(p)
         [] tok.name \in {"attempt", "except", "otherwise", "when"} ->
              parseNestedEnd(p)
         [] tok.name \in {"inline", "remove", "vars"} -> parseContainerEnd(p)
         [] OTHER -> Fail(p, ParseError("InvalidElementError", p.pos, tok.name))

\* parseData
parseData(p) == pushNestedOrReturn(p, PNode("", p.pos, <<>>))

\* parseDataOrElement and the state function it selects for the token
parseDataOrElement(p, tok) ==
  CASE tok.type = "start" -> parseElement(p, tok)
    [] tok.type = "end" -> parseEndElement(p, tok)
    [] OTHER -> parseData(p)

\* Next: the reader yields one more token, one of T and at most the n-th, and
\* the state functions run on it.
ParseToken(T, n) ==
  /\ parser.made
  /\ parser.err = NoParseError
  /\ parser.pos < n
  /\ \E tok \in T :
       parser' = parseDataOrElement(
                   [parser EXCEPT !.pos = @ + 1, !.tok = tok], tok)
  /\ UNCHANGED <<procVars, pool, reader>>

\* Mutant: at the end of the input Next returns io.EOF whatever is open.
ParseEOFClean ==
  /\ parser.made
  /\ parser.err = NoParseError
  /\ parser' = [parser EXCEPT !.err = EOF, !.ret = EOF]
  /\ UNCHANGED <<procVars, pool, reader>>

\* Next: the reader is at its end; p.err is io.EOF, and Next returns
\* UnclosedElementError for the scope still open, else io.EOF.
ParseEOF ==
  /\ parser.made
  /\ parser.err = NoParseError
  /\ parser' =
       [parser EXCEPT
          !.err = EOF,
          !.ret = IF currentScope(parser.stack) # NilNode
                  THEN ParseError("UnclosedElementError",
                                  currentScope(parser.stack).pos,
                                  currentScope(parser.stack).kind)
                  ELSE EOF]
  /\ UNCHANGED <<procVars, pool, reader>>

\* All: what the iterator has yielded once Next has returned an error: each
\* node Next returned, then the error unless it is io.EOF.
All(p) ==
  [k \in 1..Len(p.out) |-> [node |-> p.out[k], err |-> NoParseError]]
    \o (IF p.ret = EOF THEN <<>>
        ELSE <<[node |-> NilNode, err |-> p.ret]>>)

NextParse == ParseToken(Tokens, MaxToks) \/ ParseEOF

NextParseTags == ParseToken(TagTokens, MaxTagToks) \/ ParseEOF

InitParse ==
  /\ InitProc(FullOpts, {<<>>}, {<<>>})
  /\ opts.clientConcurrency = 1
  /\ pool = NoPool
  /\ parser = NewParser
  /\ reader = NoReader

\* One Parser reading any document of at most MaxToks well-formed tokens.
SpecParse == InitParse /\ [][NextParse]_vars

\* The parser after it has read the start tag of a try and data.
InTryAfterData ==
  LET try == StartTok("try", FALSE, {})
      p1 == parseDataOrElement([NewParser EXCEPT !.pos = 1, !.tok = try], try)
  IN  parseDataOrElement([p1 EXCEPT !.pos = 2, !.tok = DataTok], DataTok)

InitParseTry ==
  /\ InitProc(FullOpts, {<<>>}, {<<>>})
  /\ opts.clientConcurrency = 1
  /\ pool = NoPool
  /\ parser = InTryAfterData
  /\ reader = NoReader

NextParseTry == ParseToken(Tokens, MaxToks + 1) \/ ParseEOF

\* One Parser reading any document of well-formed tokens that begins with
\* the start tag of a try and data and has at most MaxToks + 1 tokens.
SpecParseTry == InitParseTry /\ [][NextParseTry]_vars

\* One Parser reading any input of at most MaxTagToks tokens of any kind.
SpecParseTags == InitParse /\ [][NextParseTags]_vars

\* ---------------------------------------------------------------------------
\* esixml.Reader. The input is a sequence of bytes, each a one-character
\* string. No input holds '&' or '\r', so the entity and carriage-return
\* branches of readQuotedAttrValue are never entered and are left out.

\* The most chunks an input of the reader is built of.
MaxChunks == 3

\* The most calls of Next after the one that returned an error.
MaxAgain == 2

Lower == {"a", "b", "c", "d", "e", "f", "g", "h", "i", "j", "k", "l", "m",
          "n", "o", "p", "q", "r", "s", "t", "u", "v", "w", "x", "y", "z"}

Upper == {"A", "B", "C", "D", "E", "F", "G", "H", "I", "J", "K", "L", "M",
          "N", "O", "P", "Q", "R", "S", "T", "U", "V", "W", "X", "Y", "Z"}

Digits == {"0", "1", "2", "3", "4", "5", "6", "7", "8", "9"}

\* The bytes discardSpaces skips.
Spaces == {" ", "\r", "\n", "\t"}

\* The bytes readAttrValue takes into an unquoted value.
ValueBytes == Lower \cup Upper \cup Digits \cup {"_", ":", "-"}

NameBytes == Lower \cup Upper \cup Digits \cup {"_", ":", ".", "-"}

isNameByte(c) == c \in NameBytes

\* isName on ASCII: a letter, '_' or ':' first, then also digits, '-', '.'.
isName(s) ==
  /\ Len(s) > 0
  /\ s[1] \in Lower \cup Upper \cup {"_", ":"}
  /\ \A k \in 2..Len(s) : isNameByte(s[k])

\* bytes.HasPrefix of the input from offset off on.
HasPrefix(in, off, pre) ==
  /\ off + Len(pre) <= Len(in)
  /\ SubSeq(in, off + 1, off + Len(pre)) = pre

\* The offset after the longest run of bytes of S that starts at off.
Run(in, off, S) ==
  CHOOSE e \in off..Len(in) :
    /\ \A k \in (off + 1)..e : in[k] \in S
    /\ e = Len(in) \/ in[e + 1] \notin S

\* esixml.Name of a byte slice: cut at the first ':'.
bytesToName(b) ==
  LET colons == {k \in 1..Len(b) : b[k] = ":"}
      cut == CHOOSE k \in colons : \A j \in colons : k <= j
  IN IF colons = {} THEN [space |-> <<>>, local |-> b]
     ELSE [space |-> SubSeq(b, 1, cut - 1),
           local |-> SubSeq(b, cut + 1, Len(b))]

NoName == [space |-> <<>>, local |-> <<>>]

\* The errors of the reader; got and expected are "" where the error has none.
ScanError(type, at, got, expected) ==
  [type |-> type, at |-> at, got |-> got, expected |-> expected]

UnexpectedEndOfInput(at, expected) ==
  ScanError("UnexpectedEndOfInput", at, "", expected)

UnexpectedCharacterError(at, got, expected) ==
  ScanError("UnexpectedCharacterError", at, got, expected)

InvalidNameError(at) == ScanError("InvalidNameError", at, "", "")

SyntaxError(at) == ScanError("SyntaxError", at, "", "")

DuplicateAttributeError(at) == ScanError("DuplicateAttributeError", at, "", "")

\* esixml.Token with its Position; attr is the list of its attributes.
RTok(type, start, end, name, closed, attr, data) ==
  [type |-> type, start |-> start, end |-> end, name |-> name,
   closed |-> closed, attr |-> attr, data |-> data]

NoRTok == RTok("invalid", 0, 0, NoName, FALSE, <<>>, <<>>)

\* consumeOrError: the offset after byte b, or the error and the offset kept.
consumeOrError(in, off, b) ==
  IF off >= Len(in)
  THEN [off |-> off, err |-> UnexpectedEndOfInput(off, b)]
  ELSE IF in[off + 1] # b
  THEN [off |-> off, err |-> UnexpectedCharacterError(off, in[off + 1], b)]
  ELSE [off |-> off + 1, err |-> NoParseError]

\* consume: whether the next byte is b.
consume(in, off, b) == off < Len(in) /\ in[off + 1] = b

discardSpaces(in, off) == Run(in, off, Spaces)

\* readName(false): the name at off; the first byte is read even when it is
\* no name byte.
readName(in, off) ==
  IF off >= Len(in)
  THEN [off |-> off, err |-> UnexpectedEndOfInput(off, ""), name |-> NoName]
  ELSE IF ~isNameByte(in[off + 1])
  THEN [off |-> off + 1, err |-> InvalidNameError(off), name |-> NoName]
  ELSE LET e == Run(in, off + 1, NameBytes)
           name == SubSeq(in, off + 1, e)
       IN IF ~isName(name)
          THEN [off |-> e, err |-> InvalidNameError(off), name |-> NoName]
          ELSE [off |-> e, err |-> NoParseError, name |-> bytesToName(name)]

\* readQuotedAttrValue: up to the closing quote; a '<' inside is an error.
readQuotedAttrValue(in, off) ==
  LET quote == in[off + 1]
      stops == {k \in (off + 2)..Len(in) : in[k] \in {quote, "<"}}
      stop == CHOOSE k \in stops : \A j \in stops : k <= j
  IN IF stops = {}
     THEN [off |-> Len(in), err |-> UnexpectedEndOfInput(Len(in), ""),
           value |-> <<>>]
     ELSE IF in[stop] = "<"
     THEN [off |-> stop, err |-> SyntaxError(stop - 1), value |-> <<>>]
     ELSE [off |-> stop, err |-> NoParseError,
           value |-> SubSeq(in, off + 2, stop - 1)]

\* readAttrValue: a quoted value, or the run of value bytes, which may be
\* empty and must not end the input.
readAttrValue(in, off) ==
  IF off < Len(in) /\ in[off + 1] \in {"\"", "'"}
  THEN readQuotedAttrValue(in, off)
  ELSE LET e == Run(in, off, ValueBytes)
       IN IF e = Len(in)
          THEN [off |-> e, err |-> UnexpectedEndOfInput(e, ""), value |-> <<>>]
          ELSE [off |-> e, err |-> NoParseError, value |-> SubSeq(in, off + 1, e)]

\* esixml.Attr of the reader, with its Position.
RAttr(start, end, name, value) ==
  [start |-> start, end |-> end, name |-> name, value |-> value]

\* Token.hasAttr
hasAttr(attr, name) == \E k \in 1..Len(attr) : attr[k].name = name

\* The loop of parseStartElement after the name: attributes up to '>' or '/>'.
RECURSIVE readAttrs(_, _, _)
readAttrs(in, off0, attr) ==
  LET off == discardSpaces(in, off0)
      fail(o, err) == [off |-> o, err |-> err, attr |-> <<>>, closed |-> FALSE]
  IN IF consume(in, off, "/")
     THEN LET gt == consumeOrError(in, off + 1, ">")
          IN IF gt.err # NoParseError THEN fail(gt.off, gt.err)
             ELSE [off |-> gt.off, err |-> NoParseError, attr |-> attr,
                   closed |-> TRUE]
     ELSE IF consume(in, off, ">")
     THEN [off |-> off + 1, err |-> NoParseError, attr |-> attr,
           closed |-> FALSE]
     ELSE LET name == readName(in, off)
              eq == consumeOrError(in, discardSpaces(in, name.off), "=")
              val == readAttrValue(in, eq.off)
          IN IF name.err # NoParseError THEN fail(name.off, name.err)
             ELSE IF eq.err # NoParseError THEN fail(eq.off, eq.err)
             ELSE IF val.err # NoParseError THEN fail(val.off, val.err)
             ELSE IF hasAttr(attr, name.name)
             THEN fail(val.off, DuplicateAttributeError(off))
             ELSE readAttrs(in, val.off,
                            Append(attr, RAttr(off, val.off, name.name,
                                               val.value)))

\* What a state function hands back: the reader, the token and the error.
Scanned(r, tok, err) == [r |-> r, tok |-> tok, err |-> err]

\* parseStartElement: the '<' was consumed; name, attributes, '>' or '/>'.
parseStartElement(r) ==
  LET name == readName(r.in, r.offset)
      rest == readAttrs(r.in, name.off, <<>>)
  IN IF name.err # NoParseError
     THEN Scanned([r EXCEPT !.offset = name.off], NoRTok, name.err)
     ELSE IF rest.err # NoParseError
     THEN Scanned([r EXCEPT !.offset = rest.off], NoRTok, rest.err)
     ELSE Scanned([r EXCEPT !.offset = rest.off,
                            !.stateFn = "parseElementOrData"],
                  RTok("start", r.offset - 1, rest.off, name.name,
                       rest.closed, rest.attr, <<>>),
                  NoParseError)

\* parseEndElement (of the reader): the '<' was consumed; '/', name, '>'.
readEndElement(r) ==
  LET slash == consumeOrError(r.in, r.offset, "/")
      name == readName(r.in, slash.off)
      gt == consumeOrError(r.in, discardSpaces(r.in, name.off), ">")
  IN IF slash.err # NoParseError
     THEN Scanned([r EXCEPT !.offset = slash.off], NoRTok, slash.err)
     ELSE IF name.err # NoParseError
     THEN Scanned([r EXCEPT !.offset = name.off], NoRTok, name.err)
     ELSE IF gt.err # NoParseError
     THEN Scanned([r EXCEPT !.offset = gt.off], NoRTok, gt.err)
     ELSE Scanned([r EXCEPT !.offset = gt.off,
                            !.stateFn = "parseElementOrData"],
                  RTok("end", r.offset - 1, gt.off, name.name, FALSE, <<>>,
                       <<>>),
                  NoParseError)

\* Mutant: every '<' starts an element.
TagStartsAny(in, off) ==
  {k \in (off + 1)..Len(in) : in[k] = "<"}

\* The '<' from off on that Peek(5) finds followed by "esi:" or "/esi:".
TagStarts(in, off) ==
  {k \in (off + 1)..Len(in) :
     /\ in[k] = "<"
     /\ \/ HasPrefix(in, k, <<"e", "s", "i", ":">>)
        \/ HasPrefix(in, k, <<"/", "e", "s", "i", ":">>)}

\* Mutant: the data before a tag ends after the '<' of the tag.
dataEndAfterLt(lt) == lt

\* The End of the data before the tag whose '<' is the byte lt: the '<' is
\* not counted.
dataEnd(lt) == lt - 1

\* parseElementOrData: the data up to the next '<' of an ESI tag, which is
\* consumed, or up to the end of the input, where r.err becomes io.EOF.
parseElementOrData(r) ==
  LET tags == TagStarts(r.in, r.offset)
      lt == CHOOSE k \in tags : \A j \in tags : k <= j
      end == Len(r.in)
  IN IF tags = {}
     THEN Scanned([r EXCEPT !.offset = end, !.err = EOF],
                  IF end = r.offset THEN NoRTok
                  ELSE RTok("data", r.offset, end, NoName, FALSE, <<>>,
                            SubSeq(r.in, r.offset + 1, end)),
                  EOF)
     ELSE Scanned([r EXCEPT !.offset = lt,
                            !.stateFn =
                              IF HasPrefix(r.in, lt, <<"e", "s", "i", ":">>)
                              THEN "parseStartElement"
                              ELSE "parseEndElement"],
                  IF lt - r.offset <= 1 THEN NoRTok
                  ELSE RTok("data", r.offset, dataEnd(lt), NoName, FALSE, <<>>,
                            SubSeq(r.in, r.offset + 1, dataEnd(lt))),
                  NoParseError)

\* r.stateFn(r)
stateFn(r) ==
  CASE r.stateFn = "parseStartElement" -> parseStartElement(r)
    [] r.stateFn = "parseEndElement" -> readEndElement(r)
    [] OTHER -> parseElementOrData(r)

\* NewReader, Reset: at offset 0 of in, no error, to parse element or data.
\* tok and ret are what the last call of Next returned, toks the tokens
\* returned so far, again the calls made after one returned an error, resets
\* the calls of Reset.
NewReader(in) ==
  [made |-> TRUE, in |-> in, offset |-> 0, err |-> NoParseError,
   stateFn |-> "parseElementOrData", tok |-> NoRTok, ret |-> NoParseError,
   toks |-> <<>>, again |-> 0, resets |-> 0]

\* What Next does with the result x of a state function: r.err is set, and
\* a token is returned, else the loop goes on.
RECURSIVE ReadNext(_)
afterStateFn(x) ==
  IF x.tok.type # "invalid"
  THEN [x.r EXCEPT !.err = x.err, !.tok = x.tok, !.ret = NoParseError,
                   !.toks = Append(@, x.tok)]
  ELSE ReadNext([x.r EXCEPT !.err = x.err])

\* Mutant: Next returns the error of the reader once and forgets it.
ReadNextForgets(r) ==
  IF r.err # NoParseError
  THEN [r EXCEPT !.tok = NoRTok, !.ret = r.err, !.err = NoParseError]
  ELSE afterStateFn(stateFn(r))

\* Reader.Next: the error the reader is in, else state functions until one
\* yields a token.
ReadNext(r) ==
  IF r.err # NoParseError THEN [r EXCEPT !.tok = NoRTok, !.ret = r.err]
  ELSE afterStateFn(stateFn(r))

\* The chunks the inputs of the reader are built of: data, tags that are no
\* ESI tags, ESI tags, and pieces of ESI tags.
Chunks ==
  {<<"a">>, <<"<">>, <<">">>, <<"/", ">">>, <<"<", "b", ">">>,
   <<"<", "/", "b", ">">>, <<"<", "e", "s", "i">>,
   <<"<", "E", "S", "I", ":", "x", ">">>,
   <<"<", " ", "e", "s", "i", ":", "x", ">">>,
   <<"<", "e", "s", "i", ":", "x">>, <<"<", "/", "e", "s", "i", ":", "x">>,
   <<"<", "e", "s", "i", ":", "x", ">">>,
   <<"<", "/", "e", "s", "i", ":", "x", " ", ">">>, <<" ", "k", "=", "v">>,
   <<" ", "k", "=", "'", "<", "'">>, <<" ", "k">>}

\* The chunks of the inputs a Parser reads: data and whole ESI tags.
ParseChunks ==
  {<<"a">>, <<"<">>, <<"<", "b", ">">>,
   <<"<", "e", "s", "i", ":", "r", "e", "m", "o", "v", "e", ">">>,
   <<"<", "/", "e", "s", "i", ":", "r", "e", "m", "o", "v", "e", ">">>,
   <<"<", "e", "s", "i", ":", "c", "o", "m", "m", "e", "n", "t", " ", "t", "e", "x", "t", "=", "c", "/", ">">>,
   <<"<", "e", "s", "i", ":", "t", "r", "y", ">">>,
   <<"<", "/", "e", "s", "i", ":", "t", "r", "y", ">">>,
   <<"<", "e", "s", "i", ":", "x", "/", ">">>}

\* Every concatenation of at most n chunks of C.
RECURSIVE Concats(_, _)
Concats(C, n) ==
  IF n = 0 THEN {<<>>}
  ELSE LET S == Concats(C, n - 1) IN S \cup {s \o c : s \in S, c \in C}

Inputs == Concats(Chunks, MaxChunks)

ParseInputs == Concats(ParseChunks, MaxChunks + 1)

\* The inputs a Reader and a Parser are reset to.
ResetInputs == Concats(Chunks, 1)

ParseResetInputs ==
  Concats({<<"a">>,
           <<"<", "e", "s", "i", ":", "r", "e", "m", "o", "v", "e", ">">>,
           <<"<", "/", "e", "s", "i", ":", "r", "e", "m", "o", "v", "e", ">">>},
          MaxChunks)

\* The strings bytesToString has a case for.
KnownStrings ==
  {<<<<"a", "l", "t">>, "alt">>,
   <<<<"a", "t", "t", "e", "m", "p", "t">>, "attempt">>,
   <<<<"c", "h", "o", "o", "s", "e">>, "choose">>,
   <<<<"c", "o", "m", "m", "e", "n", "t">>, "comment">>,
   <<<<"c", "o", "n", "t", "i", "n", "u", "e">>, "continue">>,
   <<<<"e", "s", "i">>, "esi">>,
   <<<<"e", "x", "c", "e", "p", "t">>, "except">>,
   <<<<"f", "e", "t", "c", "h", "a", "b", "l", "e">>, "fetchable">>,
   <<<<"i", "n", "c", "l", "u", "d", "e">>, "include">>,
   <<<<"i", "n", "l", "i", "n", "e">>, "inline">>,
   <<<<"n", "a", "m", "e">>, "name">>,
   <<<<"o", "n", "e", "r", "r", "o", "r">>, "onerror">>,
   <<<<"o", "t", "h", "e", "r", "w", "i", "s", "e">>, "otherwise">>,
   <<<<"r", "e", "m", "o", "v", "e">>, "remove">>,
   <<<<"s", "r", "c">>, "src">>, <<<<"t", "e", "s", "t">>, "test">>,
   <<<<"t", "e", "x", "t">>, "text">>, <<<<"t", "r", "y">>, "try">>,
   <<<<"v", "a", "r", "s">>, "vars">>, <<<<"w", "h", "e", "n">>, "when">>}

\* The other strings in the inputs a Parser reads, which bytesToString
\* converts with string(b); the empty string is the conversion of no bytes.
OtherStrings ==
  {<<<<"c">>, "c">>, <<<<"x">>, "x">>}

\* bytesToString: the string of the bytes b.
bytesToString(b) ==
  IF \E s \in KnownStrings \cup OtherStrings : s[1] = b
  THEN (CHOOSE s \in KnownStrings \cup OtherStrings : s[1] = b)[2]
  ELSE ""

\* The most calls of Reset on one reader or parser.
MaxResets == 1

\* The token as the parser sees it. The reader converts names and values with
\* bytesToString when it builds the token; here they are converted when the
\* token is handed over, and the parser keeps the index of the token in
\* reader.toks for its Position.
ParserTok(t) ==
  [type |-> t.type, name |-> bytesToString(t.name.local),
   closed |-> t.closed,
   attr |-> {Attr(bytesToString(t.attr[k].name.space),
                  bytesToString(t.attr[k].name.local),
                  bytesToString(t.attr[k].value)) : k \in 1..Len(t.attr)}]

\* Reader.Next, called by the user of a Reader; after it returned an error
\* it is called at most MaxAgain times more.
ReaderNext ==
  /\ reader.made
  /\ ~parser.made
  /\ reader.again < MaxAgain
  /\ reader' = [ReadNext(reader) EXCEPT
                  !.again = IF reader.ret # NoParseError THEN @ + 1 ELSE @]
  /\ UNCHANGED <<procVars, pool, parser>>

\* Reader.Reset(in)
ReaderReset ==
  /\ reader.made
  /\ ~parser.made
  /\ reader.resets < MaxResets
  /\ \E in \in ResetInputs :
       reader' = [NewReader(in) EXCEPT !.resets = reader.resets + 1]
  /\ UNCHANGED <<procVars, pool, parser>>

\* The end of Parser.Next when p.err is set: the error itself, and for
\* io.EOF the UnclosedElementError of the scope still open, if any.
nextError(p) ==
  IF p.err # EOF THEN p.err
  ELSE IF currentScope(p.stack) # NilNode
  THEN ParseError("UnclosedElementError", currentScope(p.stack).pos,
                  currentScope(p.stack).kind)
  ELSE EOF

\* The parser after its state function took the token tok of the reader.
onToken(p, tok) == parseDataOrElement([p EXCEPT !.pos = @ + 1, !.tok = tok], tok)

\* The parser after its state function got the error err of the reader.
onError(p, err) ==
  [p EXCEPT !.err = err, !.ret = nextError([p EXCEPT !.err = err])]

\* The parser and its reader after the reader's Next gave rd.
afterRead(rd) ==
  /\ reader' = rd
  /\ parser' = IF rd.ret = NoParseError
               THEN onToken(parser, ParserTok(rd.tok))
               ELSE onError(parser, rd.ret)

\* Parser.Next on a parser without error: the state function takes the next
\* token of the reader, or its error.
ParseRead ==
  /\ parser.made
  /\ reader.made
  /\ parser.err = NoParseError
  /\ afterRead(ReadNext(reader))
  /\ UNCHANGED <<procVars, pool>>

\* Parser.Next on a parser that returned an error, at most MaxAgain times.
ParseAgain ==
  /\ parser.made
  /\ reader.made
  /\ parser.err # NoParseError
  /\ parser.again < MaxAgain
  /\ parser' = [parser EXCEPT !.ret = nextError(parser), !.again = @ + 1]
  /\ UNCHANGED <<procVars, pool, reader>>

\* Mutant: Reset leaves the stack as it is.
ParserResetKeepsStack ==
  /\ parser.made
  /\ reader.made
  /\ reader.resets < MaxResets
  /\ parser' = [NewParser EXCEPT !.stack = parser.stack]
  /\ \E in \in ParseResetInputs :
       reader' = [NewReader(in) EXCEPT !.resets = reader.resets + 1]
  /\ UNCHANGED <<procVars, pool>>

\* Parser.Reset(in): the stack, the error and the reader start anew.
ParserReset ==
  /\ parser.made
  /\ reader.made
  /\ reader.resets < MaxResets
  /\ parser' = NewParser
  /\ \E in \in ParseResetInputs :
       reader' = [NewReader(in) EXCEPT !.resets = reader.resets + 1]
  /\ UNCHANGED <<procVars, pool>>

NextRead ==
  \/ ReaderNext
  \/ ReaderReset
  \/ ParseRead
  \/ ParseAgain
  \/ ParserReset

InitRead ==
  /\ InitProc(FullOpts, {<<>>}, {<<>>})
  /\ opts.clientConcurrency = 1
  /\ pool = NoPool
  /\ \/ /\ parser = NoParser
        /\ reader \in {NewReader(in) : in \in Inputs}
     \/ /\ parser = NewParser
        /\ reader \in {NewReader(in) : in \in ParseInputs}

\* One Reader on any input of at most MaxChunks chunks, or one Parser reading
\* any input of at most MaxChunks + 1 data chunks and whole ESI tags.
SpecRead == InitRead /\ [][NextRead]_vars

\* ------------------------------------------- the synchronous evaluation

\* What the body of an include's goroutine computes when nothing is cancelled:
\* doInclude for src, doInclude for alt after a failed src, onerror.
DoIncludeSync(url) ==
  IF Interpolate(url).err # NoErr
  THEN [data |-> <<>>, err |-> Interpolate(url).err]
  ELSE ClientDo(Interpolate(url).s)

IncludeSync(i) ==
  LET new == [pc |-> "src", ctx |-> 0, data |-> <<>>, err |-> NoErr, urls |-> <<>>]
      a == AfterDo(new, NodeTab[i], TRUE,
                   DoIncludeSync(NodeTab[i].src).data,
                   DoIncludeSync(NodeTab[i].src).err)
  IN  IF a.pc = "alt"
      THEN AfterDo(a, NodeTab[i], FALSE, DoIncludeSync(NodeTab[i].alt).data,
                   DoIncludeSync(NodeTab[i].alt).err)
      ELSE a

RECURSIVE SyncNodes(_), SyncNode(_), SyncChoose(_, _)
\* The bytes written, and the error met, when the nodes are processed strictly
\* one after the other, each node being finished before the next is looked at.
SyncNodes(ids) ==
  IF ids = <<>> THEN [out |-> <<>>, err |-> NoErr]
  ELSE LET h == SyncNode(Head(ids))
       IN  IF h.err # NoErr THEN h
           ELSE [out |-> h.out \o SyncNodes(Tail(ids)).out,
                 err |-> SyncNodes(Tail(ids)).err]

SyncChoose(id, i) ==
  IF i > Len(NodeTab[id].kids)
  THEN IF NodeTab[id].oth = 0 THEN [out |-> <<>>, err |-> NoErr]
       ELSE SyncNodes(NodeTab[NodeTab[id].oth].kids)
  ELSE IF Eval(NodeTab[id].kids[i]).err # NoErr
  THEN [out |-> <<>>, err |-> Eval(NodeTab[id].kids[i]).err]
  ELSE IF Eval(NodeTab[id].kids[i]).result
  THEN SyncNodes(NodeTab[NodeTab[id].kids[i]].kids)
  ELSE SyncChoose(id, i + 1)

SyncNode(id) ==
  LET n == NodeTab[id]
  IN  CASE n.kind = "raw" -> [out |-> n.bytes, err |-> NoErr]
        [] n.kind = "comment" -> [out |-> <<>>, err |-> NoErr]
        [] n.kind = "include" ->
             IF ~opts.client
             THEN [out |-> <<>>, err |-> UnsupportedElementError(id)]
             ELSE IF IncludeSync(id).err # NoErr
             THEN [out |-> <<>>, err |-> IncludeSync(id).err]
             ELSE [out |-> IncludeSync(id).data, err |-> NoErr]
        [] n.kind = "choose" -> SyncChoose(id, 1)
        [] n.kind = "try" ->
             IF SyncNodes(NodeTab[n.kids[1]].kids).err = NoErr
             THEN SyncNodes(NodeTab[n.kids[1]].kids)
             ELSE SyncNodes(NodeTab[n.kids[2]].kids)
        [] n.kind = "remove" -> [out |-> <<>>, err |-> NoErr]
        [] n.kind \in {"vars", "inline"} ->
             [out |-> <<>>, err |-> UnsupportedElementError(id)]
        [] OTHER -> [out |-> <<>>, err |-> UnexpectedElementError(id)]

IsPrefix(s, t) == Len(s) <= Len(t) /\ SubSeq(t, 1, Len(s)) = s

RECURSIVE BytesUnder(_)
\* Every byte the subtree of a node can give rise to: its raw data and what
\* its includes can fetch.
BytesUnder(id) ==
  LET n == NodeTab[id]
  IN  Range(n.bytes)
      \cup (IF n.kind = "include"
            THEN Range(ClientDo(InterpolateFunc(n.src).s).data)
                 \cup Range(ClientDo(InterpolateFunc(n.alt).s).data)
            ELSE {})
      \cup UNION {BytesUnder(k) : k \in Range(n.kids)}
      \cup (IF n.oth # 0 THEN BytesUnder(n.oth) ELSE {})

RECURSIVE NodesUnder(_)
\* The node ids of a subtree, its root included.
NodesUnder(id) ==
  {id} \cup UNION {NodesUnder(k) : k \in Range(NodeTab[id].kids)}
       \cup (IF NodeTab[id].oth # 0 THEN NodesUnder(NodeTab[id].oth) ELSE {})

Active == {c \in Calls : ret[c].st # "unused"}

\* --------------------------------------------------------------- claims

\* C1: for every document, fetch results, completion order and limit, what
\* Process has written is at every moment a prefix of what the synchronous
\* left-to-right evaluation writes, and all of it once Process has returned.
C1_OutputIsSynchronous ==
  \A c \in Active :
    /\ IsPrefix(cons[c].out, SyncNodes(docs[c]).out)
    /\ ret[c].st = "returned" => cons[c].out = SyncNodes(docs[c]).out

\* C1 witness: under limit 2 the fetch of a later include has completed while
\* the fetch of the first include is still running and the writer waits for it.
C1_Witness ==
  /\ opts.clientConcurrency = 2
  /\ docs[1] = <<2, 6>>
  /\ incs[1][2].pc = "srcDo"
  /\ incs[1][17].pc = "done"
  /\ cons[1].pc = "wait"
  /\ cons[1].out = <<>>

\* The subsequence of s of the elements in S.
Filter(s, S) ==
  LET In(x) == x \in S
  IN  SelectSeq(s, In)

Attempt(t) == NodeTab[t].kids[1]

Except(t) == NodeTab[t].kids[2]

\* A try whose attempt holds a node that fails.
AttemptFails(t) == SyncNodes(NodeTab[Attempt(t)].kids).err # NoErr

\* Call c has returned without error and node id stood at the top level of its
\* document: the node has been processed to its end.
Processed(c, id) ==
  /\ ret[c].st = "returned"
  /\ ret[c].err = NoErr
  /\ id \in Range(docs[c])

\* C2: for a try whose attempt holds a failing node, no byte of attempt is ever
\* written, and the bytes written for the try are those of its except branch.
C2_FailedAttemptWritesNothing ==
  \A c \in Active : \A t \in TryIds :
    AttemptFails(t) =>
      /\ Range(cons[c].out) \cap BytesUnder(Attempt(t)) = {}
      /\ Processed(c, t) =>
           Filter(cons[c].out, BytesUnder(t)) = SyncNodes(NodeTab[Except(t)].kids).out

\* C3: for a try all of whose attempt nodes succeed, the try contributes the
\* output of attempt, and nothing of except is processed: none of its tests is
\* evaluated and none of its includes is started.
C3_ExceptUntouchedAfterAttempt ==
  \A c \in Active : \A t \in TryIds :
    (/\ ~AttemptFails(t)
     /\ \A i \in IncIds \cap NodesUnder(Attempt(t)) :
          incs[c][i].pc = "done" /\ incs[c][i].err = NoErr)
    => /\ evald[c] \cap NodesUnder(Except(t)) = {}
       /\ \A i \in IncIds \cap NodesUnder(Except(t)) : incs[c][i].pc = "idle"
       /\ Processed(c, t) =>
            Filter(cons[c].out, BytesUnder(t)) = SyncNodes(NodeTab[Attempt(t)].kids).out

\* The calls to the fetch collaborator that are in progress.
InProgress ==
  {p \in Calls \X IncIds : incs[p[1]][p[2]].pc \in {"srcDo", "altDo"}}

\* C4: at every moment at most clientConcurrency calls of Client.Do are in
\* progress, over all includes of all active Process calls.
C4_FetchesWithinLimit == Cardinality(InProgress) <= opts.clientConcurrency

\* C4 witness: two fetches of two different calls, one of them nested in a
\* try's attempt, are in progress under limit 2 while a third include waits.
C4_Witness ==
  /\ opts.clientConcurrency = 2
  /\ incs[1][2].pc = "srcDo"
  /\ incs[2][28].pc = "srcDo"
  /\ incs[1][17].pc = "src"

AllReturned == \A c \in Active : ret[c].st = "returned"

\* C5: under limit 1, concurrently active Process calls with sibling and
\* nested includes all return.
C5_NoDeadlockAtLimitOne == (opts.clientConcurrency = 1) => <>AllReturned

\* C5 witness: under limit 1 two calls, one with sibling includes and one with
\* an include nested in a try, have both returned without error.
C5_Witness ==
  /\ opts.clientConcurrency = 1
  /\ docs[1] = <<2, 6>>
  /\ docs[2] = <<8>>
  /\ AllReturned
  /\ \A c \in Calls : ret[c].err = NoErr /\ ret[c].n = 2

RECURSIVE FirstTrue(_, _)
\* The first <esi:when> from index i on whose test evaluates to true, else the
\* <esi:otherwise>, else 0.
FirstTrue(ch, i) ==
  IF i > Len(NodeTab[ch].kids) THEN NodeTab[ch].oth
  ELSE IF EvalFunc(NodeTab[NodeTab[ch].kids[i]].test).val = "true"
  THEN NodeTab[ch].kids[i]
  ELSE FirstTrue(ch, i + 1)

Branches(ch) ==
  Range(NodeTab[ch].kids) \cup (IF NodeTab[ch].oth = 0 THEN {} ELSE {NodeTab[ch].oth})

\* C6: a choose writes the output of the children of the first when whose test
\* is true, or of otherwise if there is none, and no byte of any other branch.
C6_ChooseWritesFirstTrueBranch ==
  \A c \in Active : \A ch \in ChooseIds :
    opts.evalFunc =>
      /\ \A b \in Branches(ch) \ {FirstTrue(ch, 1)} :
           Range(cons[c].out) \cap BytesUnder(b) = {}
      /\ Processed(c, ch) =>
           Filter(cons[c].out, BytesUnder(ch)) =
             IF FirstTrue(ch, 1) = 0 THEN <<>>
             ELSE SyncNodes(NodeTab[FirstTrue(ch, 1)].kids).out

\* C6 witness: tests false, true, true with an otherwise: the call has
\* returned having written the second when's include, and nothing else.
C6_Witness ==
  /\ opts.evalFunc
  /\ docs[1] = <<6>>
  /\ ret[1].st = "returned"
  /\ ret[1].err = NoErr
  /\ cons[1].out = <<"z">>

\* C7: the tests of a choose are evaluated in document order, and a test is
\* evaluated only if every earlier test of the choose yielded false: nothing
\* is evaluated after a true result or an error.
C7_TestsInOrderUntilFirstTrue ==
  \A c \in Active : \A ch \in ChooseIds :
    \A j \in 1..Len(NodeTab[ch].kids) :
      NodeTab[ch].kids[j] \in evald[c] =>
        \A k \in 1..(j - 1) :
          /\ NodeTab[ch].kids[k] \in evald[c]
          /\ EvalFunc(NodeTab[NodeTab[ch].kids[k]].test) =
               [val |-> "false", err |-> NoErr]

\* C7 witness: a choose stopped after its second test (true) and a choose
\* stopped after its first test (an error); the later tests were not evaluated.
C7_Witness ==
  /\ docs[1] = <<6, 10>>
  /\ ret[1].st = "returned"
  /\ ret[1].err = Err("eval", 0)
  /\ evald[1] = {12, 13, 35}

\* C8: an include calls the client for src first and for alt only after the
\* attempt at src failed and only if there is an alt, each at most once; a
\* successful src yields src's bytes and no call for alt; a successful alt
\* yields alt's bytes and no error.
C8_AltOnlyAfterFailedSrc ==
  \A c \in Active : \A i \in IncIds :
    LET inc == incs[c][i]
        srcUrl == Interpolate(NodeTab[i].src).s
        altUrl == Interpolate(NodeTab[i].alt).s
    IN  /\ Len(inc.urls) <= 2
        /\ inc.pc \in {"alt", "altDo"} => inc.err # NoErr /\ NodeTab[i].alt # ""
        /\ Len(inc.urls) = 2 =>
             /\ inc.urls = <<srcUrl, altUrl>>
             /\ ClientDo(srcUrl).err # NoErr
             /\ NodeTab[i].alt # ""
        /\ Len(inc.urls) = 1 => inc.urls[1] = srcUrl \/ inc.pc \in {"altDo", "done"}
        /\ (inc.urls # <<>> /\ inc.urls[1] = srcUrl /\ ClientDo(srcUrl).err = NoErr)
             => /\ Len(inc.urls) = 1
                /\ inc.pc = "done" =>
                     inc.data = ClientDo(srcUrl).data /\ inc.err = NoErr
        /\ (inc.pc = "done" /\ Len(inc.urls) = 2 /\ ClientDo(altUrl).err = NoErr)
             => inc.data = ClientDo(altUrl).data /\ inc.err = NoErr

\* C8 witness: src failed, alt was fetched once and succeeded, and the call
\* returned having written alt's bytes.
C8_Witness ==
  /\ docs[1] = <<4>>
  /\ incs[1][4].urls = <<"/f", "/y">>
  /\ ret[1].st = "returned"
  /\ ret[1].err = NoErr
  /\ cons[1].out = <<"y">>

\* An include all of whose fetches fail.
IncludeFails(i) ==
  /\ DoIncludeSync(NodeTab[i].src).err # NoErr
  /\ NodeTab[i].alt = "" \/ DoIncludeSync(NodeTab[i].alt).err # NoErr

\* C9: a failing include with onerror="continue" contributes no byte and no
\* error, whatever the client returned alongside its error; a failing include
\* without onerror makes Process return the error.
C9_OnErrorContinueWritesNothing ==
  \A c \in Active : \A i \in IncIds \cap Range(docs[c]) :
    (opts.client /\ IncludeFails(i)) =>
      IF NodeTab[i].onerr = ErrorBehaviourContinue
      THEN /\ Range(cons[c].out) \cap BytesUnder(i) = {}
           /\ ret[c].st = "returned" /\ Len(docs[c]) = 1 => ret[c].err = NoErr
      ELSE ret[c].st = "returned" /\ docs[c][1] = i => ret[c].err # NoErr

RemoveIds == KindIds("remove")

CommentIds == KindIds("comment")

\* Call c has returned and node id was the first node of its document.
ReturnedFirst(c, id) == ret[c].st = "returned" /\ docs[c][1] = id

RECURSIVE FirstNonBool(_, _)
FirstNonBool(ch, i) ==
  IF i > Len(NodeTab[ch].kids) THEN 0
  ELSE IF EvalFunc(NodeTab[NodeTab[ch].kids[i]].test) = [val |-> "false", err |-> NoErr]
  THEN FirstNonBool(ch, i + 1)
  ELSE IF /\ EvalFunc(NodeTab[NodeTab[ch].kids[i]].test).err = NoErr
          /\ EvalFunc(NodeTab[NodeTab[ch].kids[i]].test).val # "true"
  THEN NodeTab[ch].kids[i]
  ELSE 0

\* C12: when the EvalFunc returns a value that is not a bool (nil included)
\* for a when test, the choose fails with an InvalidExpressionResultError
\* carrying that when, its expression and the result; no branch of the choose
\* is processed and no later test is evaluated.
C12_NonBoolResultFailsChoose ==
  \A c \in Active : \A ch \in ChooseIds :
    (opts.evalFunc /\ FirstNonBool(ch, 1) # 0) =>
      LET when == FirstNonBool(ch, 1)
      IN  /\ Range(cons[c].out) \cap BytesUnder(ch) = {}
          /\ \A j \in 1..Len(NodeTab[ch].kids) :
               NodeTab[ch].kids[j] \in evald[c] =>
                 \E k \in j..Len(NodeTab[ch].kids) : NodeTab[ch].kids[k] = when
          /\ ReturnedFirst(c, ch) =>
               /\ ret[c].err =
                    InvalidExpressionResultError(
                      when, NodeTab[when].test, EvalFunc(NodeTab[when].test).val)
               /\ ret[c].n = 0

\* C12 witness: the second test of a choose yielded nil; Process returned the
\* error for that when after the two tests.
C12_Witness ==
  /\ docs[1] = <<57>>
  /\ ret[1].st = "returned"
  /\ ret[1].err = InvalidExpressionResultError(59, "Z", "nil")
  /\ evald[1] = {58, 59}

\* C13: a comment and a remove contribute no byte and never fail: the call
\* goes on as if the node were not there, and nothing inside a remove is
\* processed, so no include inside it is started.
C13_CommentAndRemoveAreSkipped ==
  \A c \in Active : \A r \in RemoveIds \cup CommentIds :
    /\ Range(cons[c].out) \cap BytesUnder(r) = {}
    /\ \A i \in IncIds \cap NodesUnder(r) :
         incs[c][i].pc = "idle" /\ incs[c][i].urls = <<>>
    /\ ReturnedFirst(c, r) =>
         /\ ret[c].err = SyncNodes(Tail(docs[c])).err
         /\ cons[c].out = SyncNodes(Tail(docs[c])).out

\* C13 witness: a remove holding raw data and an include, followed by raw
\* data: only the latter was written and the include was never started.
C13_Witness ==
  /\ opts.client
  /\ docs[1] = <<41, 1>>
  /\ ret[1] = [st |-> "returned", n |-> 1, err |-> NoErr]
  /\ cons[1].out = <<"a">>
  /\ incs[1][43].pc = "idle"

UnsupportedIds == KindIds("vars") \cup KindIds("inline")

\* C14: a vars and an inline node always fail with an UnsupportedElementError
\* that names the node and matches errors.ErrUnsupported, whichever
\* collaborators are configured, and nothing of the node is written.
C14_VarsAndInlineUnsupported ==
  \A c \in Active : \A v \in UnsupportedIds :
    /\ Range(cons[c].out) \cap BytesUnder(v) = {}
    /\ ReturnedFirst(c, v) =>
         /\ ret[c].err = UnsupportedElementError(v)
         /\ IsErrUnsupported(ret[c].err)
         /\ ret[c].n = 0
         /\ cons[c].out = <<>>
    /\ (ret[c].st = "returned" /\ v \in Range(docs[c])) => ret[c].err # NoErr

\* C14 witness: with every collaborator configured, Process over an inline
\* node followed by a vars node returned the error naming the inline node.
C14_Witness ==
  /\ opts.client /\ opts.evalFunc /\ opts.interpolateFunc
  /\ docs[1] = <<46, 44>>
  /\ ret[1].st = "returned"
  /\ ret[1].err = UnsupportedElementError(46)

\* Call c was cancelled by its caller while it was in progress and the
\* cancellation cut it short: the document fails nowhere, and what was written
\* when Process returned is not its whole output.
CutShort(c) ==
  /\ cancelled[c]
  /\ ret[c].st = "returned"
  /\ SyncNodes(docs[c]).err = NoErr
  /\ cons[c].out # SyncNodes(docs[c]).out

\* C15: a Process call that its caller's cancellation cut short returns the
\* cancellation cause.
C15_CancelReturnsCause ==
  \A c \in Active : CutShort(c) => ret[c].err = Canceled

\* C16: when a node fails and nothing absorbs the failure, Process returns
\* that node's error; nothing is ever written for the nodes after it, and what
\* was written for the nodes before it stays written.
C16_ErrorStopsOutput ==
  \A c \in Active :
    SyncNodes(docs[c]).err # NoErr =>
      /\ IsPrefix(cons[c].out, SyncNodes(docs[c]).out)
      /\ ret[c].st = "returned" =>
           /\ ret[c].err = SyncNodes(docs[c]).err
           /\ ret[c].n = 0
           /\ cons[c].out = SyncNodes(docs[c]).out

\* C16 witness: a choose that wrote its include, then an include that fails,
\* inside of which nothing is absorbed: the first bytes stay, the error is
\* returned.
C16_Witness ==
  /\ docs[1] = <<6, 3>>
  /\ ret[1] = [st |-> "returned", n |-> 0, err |-> Err("fetch", 0)]
  /\ cons[1].out = <<"z">>


\* Every worker New started has returned from worker().
WorkersGone == \A w \in WorkerIds : pool.workers[w].pc \in {"none", "exited"}

\* C17: a Process call that starts after Release has returned writes
\* nothing, queues no fetch and returns an error; and once one Release call
\* has returned, another Release call has nothing left to wait for, so it
\* returns without blocking.
C17_ProcessAfterReleaseFails ==
  pool.made =>
    /\ \A c \in Calls :
         pool.callers[c].late =>
           /\ pool.callers[c].out = <<>>
           /\ \A k \in DOMAIN pool.callers[c].items :
                pool.callers[c].items[k].st = "none"
           /\ pool.callers[c].pc = "returned" => pool.callers[c].err # NoErr
    /\ Released => \A r \in Releasers : pool.rel[r] = "wait" => WorkersGone

\* Both Release calls have returned, the first Process call ran before them
\* and wrote its fetched data, the second started afterwards and failed.
C17_Witness ==
  /\ pool.made
  /\ \A r \in Releasers : pool.rel[r] = "returned"
  /\ pool.callers[1].pc = "returned" /\ pool.callers[1].out = <<"x">>
  /\ pool.callers[2].late /\ pool.callers[2].pc = "returned"
  /\ pool.callers[2].err = Canceled /\ pool.callers[2].out = <<>>

\* C18: once Release has returned, every worker has returned: no fetch of
\* this Processor is running, and none can start, since only workers fetch.
C18_ReleaseDrainsFetches ==
  (pool.made /\ Released) => WorkersGone

\* Release has returned after a fetch was made and its data delivered, and
\* an include pushed later is still in the queue, taken by no worker.
C18_Witness ==
  /\ pool.made
  /\ Released
  /\ pool.items # <<>>
  /\ \E c \in Calls : \E k \in DOMAIN pool.callers[c].items :
       /\ pool.callers[c].items[k].st = "done"
       /\ pool.callers[c].items[k].err = NoErr


\* C19: with two Process calls running at once on one Processor, the node
\* sequences handed to them never change, and each call that has returned
\* has written the output and returned the error of the same call run alone,
\* also when both calls are over the same node tree.
C19_CallsDoNotInterfere ==
  /\ [][docs' = docs]_vars
  /\ [](\A c \in Active :
          ret[c].st = "returned" =>
            /\ cons[c].out = SyncNodes(docs[c]).out
            /\ ret[c].err = SyncNodes(docs[c]).err)

\* Both calls were over the same choose element, ran at the same time with
\* one fetch allowed at a time, and both have returned its output.
C19_Witness ==
  /\ docs[1] = <<6>> /\ docs[2] = <<6>>
  /\ opts.clientConcurrency = 1
  /\ \A c \in Calls : ret[c].st = "returned" /\ cons[c].out = <<"z">>


\* The element that must be the innermost open scope for the start tag.
RequiredScope(name) == IF name \in {"attempt", "except"} THEN "try" ELSE "choose"

\* The last token opened a scope for its own element.
Accepted ==
  /\ Len(parser.stack) >= 2
  /\ parser.stack[Len(parser.stack)] = NilNode
  /\ parser.stack[Len(parser.stack) - 1] = PNode(parser.tok.name, parser.pos, <<>>)

\* The element whose scope was opened last and is still open in the stack:
\* the node right before the last nil marker ("nil" if there is no marker).
Innermost(stack) ==
  IF \A i \in 1..Len(stack) : stack[i] # NilNode THEN "nil"
  ELSE LET last == CHOOSE i \in 1..Len(stack) :
                     /\ stack[i] = NilNode
                     /\ \A j \in (i + 1)..Len(stack) : stack[j] # NilNode
       IN  IF last = 1 THEN "nil" ELSE stack[last - 1].kind

\* The innermost open scope the last token was met in ("nil" at top level).
ScopeBefore ==
  Innermost(IF Accepted
            THEN SubSeq(parser.stack, 1, Len(parser.stack) - 2)
            ELSE parser.stack)

\* C20: when the last token read is an attempt, except, when or otherwise
\* start tag, it has opened its scope only if the innermost open scope was
\* a try (attempt, except) or a choose (when, otherwise); there it is refused
\* only for a missing test attribute, and anywhere else the parse has failed
\* with UnexpectedElementError at that tag's position.
C20_ScopedElementsOnlyInTheirParent ==
  (/\ parser.made
   /\ parser.tok.type = "start"
   /\ parser.tok.name \in {"attempt", "except", "when", "otherwise"}) =>
    IF ScopeBefore = RequiredScope(parser.tok.name)
    THEN \/ Accepted /\ parser.err \in {NoParseError, EOF}
         \/ /\ parser.tok.name = "when"
            /\ Attr("", "test", "t") \notin parser.tok.attr
            /\ parser.err = MissingAttributeError(parser.pos, "when", "test")
    ELSE /\ ~Accepted
         /\ parser.err =
              ParseError("UnexpectedElementError", parser.pos, parser.tok.name)

\* An attempt directly inside a try was accepted, and a second attempt
\* inside that attempt, one level deeper in the same try, has failed.
C20_Witness ==
  /\ parser.made
  /\ parser.tok = StartTok("attempt", FALSE, {})
  /\ parser.pos = 3
  /\ parser.stack = <<PNode("try", 1, <<>>), NilNode,
                      PNode("attempt", 2, <<>>), NilNode>>
  /\ parser.err = ParseError("UnexpectedElementError", 3, "attempt")


\* The nodes collected in the innermost open scope of the stack.
ScopeNodes(stack) ==
  LET marks == {i \in 1..Len(stack) : stack[i] = NilNode}
      last == CHOOSE i \in marks : \A j \in marks : j <= i
  IN  SubSeq(stack, last + 1, Len(stack))

\* How many of the nodes are elements of that name.
Count(nodes, kind) == Cardinality({i \in 1..Len(nodes) : nodes[i].kind = kind})

\* The step reads the end tag of the innermost open scope, an element of
\* that name.
Closes(name) ==
  /\ parser.made
  /\ parser.err = NoParseError
  /\ parser'.pos = parser.pos + 1
  /\ parser'.tok = EndTok(name)
  /\ Innermost(parser.stack) = name

\* The node and everything below it has the children its element must have.
RECURSIVE Mandated(_)
Mandated(node) ==
  /\ node.kind = "choose" =>
       Count(node.nodes, "when") >= 1 /\ Count(node.nodes, "otherwise") <= 1
  /\ node.kind = "try" =>
       Count(node.nodes, "attempt") = 1 /\ Count(node.nodes, "except") = 1
  /\ \A i \in 1..Len(node.nodes) : Mandated(node.nodes[i])

\* C21: closing a choose fails with DuplicateElementError if it holds a
\* second otherwise and else with MissingElementError if it holds no when;
\* closing a try fails with DuplicateElementError if it holds a second
\* attempt or except and else with MissingElementError if attempt or except
\* is missing; in every other case the scope closes without error; and every
\* node Next has returned has, at every depth, >= 1 when and <= 1 otherwise
\* in a choose and exactly one attempt and one except in a try.
C21_MandatedChildren ==
  /\ [](parser.made => \A i \in 1..Len(parser.out) : Mandated(parser.out[i]))
  /\ [][Closes("choose") =>
          LET n == ScopeNodes(parser.stack)
          IN  parser'.err.type =
                IF Count(n, "otherwise") > 1 THEN "DuplicateElementError"
                ELSE IF Count(n, "when") = 0 THEN "MissingElementError"
                ELSE "nil"]_vars
  /\ [][Closes("try") =>
          LET n == ScopeNodes(parser.stack)
          IN  parser'.err.type =
                IF Count(n, "attempt") > 1 \/ Count(n, "except") > 1
                THEN "DuplicateElementError"
                ELSE IF Count(n, "attempt") = 0 \/ Count(n, "except") = 0
                THEN "MissingElementError"
                ELSE "nil"]_vars

\* Next has returned a try with its attempt and its except.
C21_Witness ==
  /\ parser.made
  /\ parser.pos = 6
  /\ parser.err = NoParseError
  /\ Len(parser.out) = 1
  /\ parser.out[1].kind = "try"
  /\ Len(parser.out[1].nodes) = 2


\* The last token has an attribute of that local name and no namespace.
Has(local) == \E a \in parser.tok.attr : a.space = "" /\ a.local = local

\* The value of that attribute of the last token.
Val(local) ==
  (CHOOSE a \in parser.tok.attr : a.space = "" /\ a.local = local).value

\* The last token is a start tag of one of the names.
StartOf(names) ==
  parser.made /\ parser.tok.type = "start" /\ parser.tok.name \in names

\* The last token became a complete node without children: returned by Next
\* at top level, the newest node of the open scope otherwise.
LeafAccepted ==
  /\ parser.err \in {NoParseError, EOF}
  /\ IF parser.stack = <<>>
     THEN /\ parser.out # <<>>
          /\ parser.out[Len(parser.out)] = PNode(parser.tok.name, parser.pos, <<>>)
     ELSE parser.stack[Len(parser.stack)] = PNode(parser.tok.name, parser.pos, <<>>)

\* C22: a self-closed choose, try, vars or remove start tag, and a
\* self-closed inline start tag with its attributes in order, has failed the
\* parse with EmptyElementError at that tag; an include or comment start tag
\* that is not self-closed has failed it with UnclosedElementError; a
\* self-closed comment with text and a self-closed include with src (and no
\* bad onerror) is a complete node.
C22_SelfClosing ==
  /\ (StartOf({"choose", "try", "vars", "remove"}) /\ parser.tok.closed) =>
       parser.err = ParseError("EmptyElementError", parser.pos, parser.tok.name)
  /\ (/\ StartOf({"inline"}) /\ parser.tok.closed
      /\ Has("name") /\ Has("fetchable")
      /\ Val("fetchable") \in {"no", "yes"}) =>
       parser.err = ParseError("EmptyElementError", parser.pos, parser.tok.name)
  /\ (StartOf({"include", "comment"}) /\ ~parser.tok.closed) =>
       parser.err = ParseError("UnclosedElementError", parser.pos, parser.tok.name)
  /\ (StartOf({"comment"}) /\ parser.tok.closed /\ Has("text")) => LeafAccepted
  /\ (/\ StartOf({"include"}) /\ parser.tok.closed /\ Has("src")
      /\ Has("onerror") => Val("onerror") = "continue") => LeafAccepted

\* A self-closed try inside the attempt of a try has failed the parse.
C22_Witness ==
  /\ parser.made
  /\ parser.tok = StartTok("try", TRUE, {})
  /\ parser.pos = 3
  /\ Len(parser.stack) = 4
  /\ parser.stack[3].kind = "attempt"
  /\ parser.err = ParseError("EmptyElementError", 3, "try")


\* C23: a self-closed comment without text, a self-closed include without
\* src, a when inside a choose without test and an inline without name or
\* without fetchable have failed the parse with MissingAttributeError for
\* that attribute; a self-closed include whose onerror is not "continue" and
\* an inline whose fetchable is neither "no" nor "yes" have failed it with
\* InvalidAttributeValueError carrying the value and the allowed values;
\* an attribute in a namespace does not count as any of these.
C23_RequiredAttributes ==
  /\ (StartOf({"comment"}) /\ parser.tok.closed /\ ~Has("text")) =>
       parser.err = MissingAttributeError(parser.pos, "comment", "text")
  /\ (/\ StartOf({"include"}) /\ parser.tok.closed
      /\ Has("onerror") /\ Val("onerror") # "continue") =>
       parser.err = InvalidAttributeValueError(
                      parser.pos, "include", "onerror", Val("onerror"),
                      {"continue"})
  /\ (/\ StartOf({"include"}) /\ parser.tok.closed /\ ~Has("src")
      /\ Has("onerror") => Val("onerror") = "continue") =>
       parser.err = MissingAttributeError(parser.pos, "include", "src")
  /\ (StartOf({"when"}) /\ ~Has("test") /\ Innermost(parser.stack) = "choose") =>
       parser.err = MissingAttributeError(parser.pos, "when", "test")
  /\ (StartOf({"inline"}) /\ ~Has("name")) =>
       parser.err = MissingAttributeError(parser.pos, "inline", "name")
  /\ (StartOf({"inline"}) /\ Has("name") /\ ~Has("fetchable")) =>
       parser.err = MissingAttributeError(parser.pos, "inline", "fetchable")
  /\ (/\ StartOf({"inline"}) /\ Has("name") /\ Has("fetchable")
      /\ Val("fetchable") \notin {"no", "yes"}) =>
       parser.err = InvalidAttributeValueError(
                      parser.pos, "inline", "fetchable", Val("fetchable"),
                      {"no", "yes"})

\* Inside a remove, an include with src and an empty onerror has failed.
C23_Witness ==
  /\ parser.made
  /\ parser.pos = 2
  /\ parser.stack = <<PNode("remove", 1, <<>>), NilNode>>
  /\ parser.tok = StartTok("include", TRUE,
                           {Attr("", "src", "/x"), Attr("", "onerror", "")})
  /\ parser.err = InvalidAttributeValueError(2, "include", "onerror", "",
                                             {"continue"})


\* The step reads an end tag.
ReadsEnd ==
  /\ parser.made
  /\ parser.err = NoParseError
  /\ parser'.pos = parser.pos + 1
  /\ parser'.tok.type = "end"

\* The position of the last nil marker in the stack (0 if there is none).
LastMark(stack) ==
  IF \A i \in 1..Len(stack) : stack[i] # NilNode THEN 0
  ELSE CHOOSE i \in 1..Len(stack) :
         stack[i] = NilNode /\ \A j \in (i + 1)..Len(stack) : stack[j] # NilNode

C25_UnclosedAtEnd ==
  (parser.made /\ parser.err = EOF) =>
    IF LastMark(parser.stack) = 0
    THEN parser.ret = EOF
    ELSE parser.ret =
           ParseError("UnclosedElementError",
                      parser.stack[LastMark(parser.stack) - 1].pos,
                      parser.stack[LastMark(parser.stack) - 1].kind)

\* The input ended inside the attempt of a try, after a comment was returned
\* and with the attempt holding data: the attempt is reported, not the try.
C25_Witness ==
  /\ parser.made
  /\ parser.err = EOF
  /\ Len(parser.out) = 1
  /\ parser.stack = <<PNode("try", 2, <<>>), NilNode,
                      PNode("attempt", 3, <<>>), NilNode, PNode("", 4, <<>>)>>
  /\ parser.ret = ParseError("UnclosedElementError", 3, "attempt")


\* The node that closing the innermost scope of the old stack has made: the
\* last node returned if the scope's element was alone on the stack, else
\* the element where it was on the stack.
ClosedNode ==
  IF LastMark(parser.stack) = 2
  THEN parser'.out[Len(parser'.out)]
  ELSE parser'.stack[LastMark(parser.stack) - 1]

\* The nodes among them that are elements of one of the names, in order.
Only(nodes, names) == SelectSeq(nodes, LAMBDA n : n.kind \in names)

\* The children ClosedNode must have, given the kinds its element keeps: all
\* of the scope's nodes of those kinds and nothing else, each kind in
\* document order.
Keeps(names) ==
  /\ Only(ClosedNode.nodes, names) = ClosedNode.nodes
  /\ \A k \in names :
       Only(ClosedNode.nodes, {k}) = Only(ScopeNodes(parser.stack), {k})

\* C26: when a choose is closed that holds at least one when and at most
\* one otherwise, whatever else its scope holds, there is no error and the
\* choose has exactly the when and otherwise nodes of the scope, in order;
\* likewise a try that holds one attempt and one except has exactly these.
C26_StrayChildrenDropped ==
  /\ [][(/\ Closes("choose")
         /\ Count(ScopeNodes(parser.stack), "when") >= 1
         /\ Count(ScopeNodes(parser.stack), "otherwise") <= 1) =>
          /\ parser'.err = NoParseError
          /\ Keeps({"when", "otherwise"})]_vars
  /\ [][(/\ Closes("try")
         /\ Count(ScopeNodes(parser.stack), "attempt") = 1
         /\ Count(ScopeNodes(parser.stack), "except") = 1) =>
          /\ parser'.err = NoParseError
          /\ Keeps({"attempt", "except"})]_vars

\* Next has returned a try of seven tokens whose only children are the
\* attempt of tokens 3 and 4 and the except of tokens 5 and 6: the data at
\* token 2, directly inside the try, is gone.
C26_Witness ==
  /\ parser.made
  /\ Len(parser.out) = 1
  /\ parser.out[1] =
       [kind |-> "try", pos |-> 1, end |-> 7,
        nodes |-> <<[kind |-> "attempt", pos |-> 3, end |-> 4, nodes |-> <<>>],
                    [kind |-> "except", pos |-> 5, end |-> 6, nodes |-> <<>>]>>]


\* The elements whose body is to be taken as raw bytes.
RawBodied == {"inline", "remove"}

\* The node and everything below it has only raw data inside inline and
\* remove elements.
RECURSIVE BodiesRaw(_)
BodiesRaw(node) ==
  /\ node.kind \in RawBodied => \A i \in 1..Len(node.nodes) : node.nodes[i].kind = ""
  /\ \A i \in 1..Len(node.nodes) : BodiesRaw(node.nodes[i])

\* The scope of an inline or remove element is open.
InRawBody ==
  \E i \in 1..(Len(parser.stack) - 1) :
    parser.stack[i + 1] = NilNode /\ parser.stack[i].kind \in RawBodied

\* C27: the body of an inline or remove element is not tokenized: no node
\* returned has anything but raw data inside an inline or remove, and no
\* token read while the scope of an inline or remove is open fails the parse.
C27_BodiesAreNotTokenized ==
  parser.made =>
    /\ \A i \in 1..Len(parser.out) : BodiesRaw(parser.out[i])
    /\ InRawBody => parser.err \in {NoParseError, EOF}

\* Whether the byte k of the input is a '<' followed by "esi:".
OpensTag(in, k) ==
  /\ k \in 1..Len(in)
  /\ in[k] = "<"
  /\ HasPrefix(in, k, <<"e", "s", "i", ":">>)

\* Whether the byte k of the input is a '<' followed by "/esi:".
ClosesTag(in, k) ==
  /\ k \in 1..Len(in)
  /\ in[k] = "<"
  /\ HasPrefix(in, k, <<"/", "e", "s", "i", ":">>)

\* The offset up to which the reader has returned tokens.
TokEnd(rd) == IF rd.toks = <<>> THEN 0 ELSE rd.toks[Len(rd.toks)].end

IsScanError(err) == err \notin {NoParseError, EOF}

\* C29: a start element begins at a '<' that "esi:" follows and an end
\* element at a '<' that "/esi:" follows; the tokens follow one another
\* without a gap from offset 0 on, so every other byte is in a data token,
\* whose data are the bytes of the input unchanged; at io.EOF the tokens
\* cover the whole input; and an error of the scanner arises only in a tag
\* that begins with "<esi:" or "</esi:".
C29_OnlyEsiTagsAreScanned ==
  reader.made =>
    /\ \A k \in 1..Len(reader.toks) :
         LET t == reader.toks[k]
         IN /\ t.start = IF k = 1 THEN 0 ELSE reader.toks[k - 1].end
            /\ t.start <= t.end
            /\ t.type = "start" => OpensTag(reader.in, t.start + 1)
            /\ t.type = "end" => ClosesTag(reader.in, t.start + 1)
            /\ t.type = "data" =>
                 /\ t.data # <<>>
                 /\ t.data = SubSeq(reader.in, t.start + 1, t.end)
    /\ reader.ret = EOF => TokEnd(reader) = Len(reader.in)
    /\ IsScanError(reader.ret) =>
         \/ OpensTag(reader.in, TokEnd(reader) + 1)
         \/ ClosesTag(reader.in, TokEnd(reader) + 1)

\* The reader is at the end of "<b><esi:x>< esi:x>" and has returned the
\* data "<b>", the start element and the data "< esi:x>".
C29_Witness ==
  /\ reader.made
  /\ ~parser.made
  /\ reader.ret = EOF
  /\ Len(reader.toks) = 3
  /\ reader.toks[1].type = "data"
  /\ reader.toks[1].data = <<"<", "b", ">">>
  /\ reader.toks[2].type = "start"
  /\ reader.toks[3].type = "data"
  /\ reader.toks[3].data = <<"<", " ", "e", "s", "i", ":", "x", ">">>

\* The byte offsets of a node of the parser: the Start of the token it began
\* with and the End of the token it ended with.
ByteStart(n) == reader.toks[n.pos].start

ByteEnd(n) == reader.toks[n.end].end

\* The parser has read its whole input and returned io.EOF.
ParsedAll == parser.made /\ reader.made /\ parser.ret = EOF

\* C28: when an input parses without error, the top-level nodes Next
\* returned tile the input: the first starts at 0, each next one starts where
\* the one before ends, the last ends at the length of the input, and no
\* node ends before it starts; an input without nodes is empty.
C28_TopLevelNodesTileTheInput ==
  ParsedAll =>
    /\ parser.out = <<>> => reader.in = <<>>
    /\ parser.out # <<>> =>
         /\ ByteStart(parser.out[1]) = 0
         /\ ByteEnd(parser.out[Len(parser.out)]) = Len(reader.in)
    /\ \A k \in 1..Len(parser.out) :
         /\ ByteStart(parser.out[k]) <= ByteEnd(parser.out[k])
         /\ k > 1 => ByteStart(parser.out[k]) = ByteEnd(parser.out[k - 1])

\* The input "a<esi:remove></esi:remove>" was parsed into data and a remove
\* element.
C28_Witness ==
  /\ ParsedAll
  /\ Len(parser.out) = 2
  /\ parser.out[1].kind = ""
  /\ parser.out[2].kind = "remove"
  /\ ByteStart(parser.out[2]) = 1
  /\ ByteEnd(parser.out[2]) = 26

\* C30: once Next of a reader has returned an error, io.EOF included, a
\* later call on it returns the same error and a zero token and leaves the
\* offset and the tokens returned as they are; once Next of a parser has
\* returned an error, io.EOF and the UnclosedElementError at the end of the
\* input included, a later call returns the same error and no node and
\* leaves the reader where it is; both until Reset.
C30_FailureIsSticky ==
  [][reader'.resets = reader.resets =>
       /\ reader.made /\ reader.ret # NoParseError =>
            /\ reader'.ret = reader.ret
            /\ reader'.tok = NoRTok
            /\ reader'.offset = reader.offset
            /\ reader'.toks = reader.toks
       /\ parser.made /\ parser.ret # NoParseError =>
            /\ parser'.ret = parser.ret
            /\ parser'.out = parser.out
            /\ reader'.offset = reader.offset
            /\ reader'.toks = reader.toks]_vars

\* Next of a parser was called twice more after it returned the
\* UnclosedElementError at the end of an input that has data, and was not
\* reset.
C30_Witness ==
  /\ parser.made
  /\ reader.made
  /\ reader.resets = 0
  /\ parser.ret.type = "UnclosedElementError"
  /\ parser.again >= 2
  /\ parser.out # <<>>

\* The last token read is a self-closed attempt, except, when or otherwise
\* start tag.
SelfClosedScoped ==
  /\ StartOf({"attempt", "except", "when", "otherwise"})
  /\ parser.tok.closed

\* C40: a self-closed attempt, except, when or otherwise start tag never
\* fails the parse with EmptyElementError; in a try (attempt, except) or a
\* choose (when with a test, otherwise) it opens its scope as the tag that is
\* not self-closed does; and once the scope is open, the end of the input
\* gives UnclosedElementError for it, an end tag of another name gives
\* UnexpectedEndElementError, and its own end tag closes it without error.
C40_SelfClosingMarkerIgnored ==
  /\ [](SelfClosedScoped =>
          /\ parser.ret.type # "EmptyElementError"
          /\ (/\ ScopeBefore = RequiredScope(parser.tok.name)
              /\ parser.tok.name = "when" => Has("test")) => Accepted)
  /\ [][SelfClosedScoped /\ Accepted /\ parser.ret = NoParseError =>
         /\ parser'.err = EOF =>
              parser'.ret = ParseError("UnclosedElementError", parser.pos,
                                       parser.tok.name)
         /\ parser'.pos = parser.pos + 1 /\ parser'.tok.type = "end" =>
              IF parser'.tok.name = parser.tok.name
              THEN /\ parser'.ret = NoParseError
                   /\ Innermost(parser'.stack) = RequiredScope(parser.tok.name)
              ELSE parser'.ret =
                     UnexpectedEndElementError(parser'.pos, parser'.tok.name,
                                               parser.tok.name)]_vars

\* A self-closed when with a test has opened its scope in a choose.
C40_Witness ==
  /\ SelfClosedScoped
  /\ parser.tok.name = "when"
  /\ Accepted
  /\ parser.ret = NoParseError
  /\ ScopeBefore = "choose"

\* The step is one of Next on a parser without error.
NextStep == parser.made /\ parser.err = NoParseError /\ parser' # parser

\* C31: Next returns a node only with the token that completes it and with
\* no scope left open, and the node is the element that was at the bottom
\* of the stack or the data or tag read at top level; a node read while a
\* scope is open is not returned but put on the stack, and when its scope is
\* closed the element gets the nodes of the scope (a try and a choose only
\* those they keep); the nodes returned are in document order, none twice:
\* the first begins at the first token and each next one right after the one
\* before; and All yields each of them with a nil error, then at most one
\* error, which is never io.EOF.
C31_NextReturnsClosedTopLevelNodes ==
  /\ [][NextStep /\ parser'.out # parser.out =>
          /\ Len(parser'.out) = Len(parser.out) + 1
          /\ SubSeq(parser'.out, 1, Len(parser.out)) = parser.out
          /\ parser'.stack = <<>>
          /\ parser'.out[Len(parser'.out)].end = parser'.pos
          /\ IF parser.stack = <<>>
             THEN parser'.out[Len(parser'.out)].pos = parser'.pos
             ELSE /\ LastMark(parser.stack) = 2
                  /\ parser'.out[Len(parser'.out)].pos = parser.stack[1].pos
                  /\ parser'.out[Len(parser'.out)].kind = parser.stack[1].kind
                  /\ parser'.tok = EndTok(parser.stack[1].kind)]_vars
  /\ [][(/\ NextStep
         /\ parser.stack # <<>>
         /\ parser'.err = NoParseError
         /\ parser'.tok.type # "end") =>
          /\ parser'.out = parser.out
          /\ Len(parser'.stack) > Len(parser.stack)
          /\ SubSeq(parser'.stack, 1, Len(parser.stack)) = parser.stack
          /\ parser'.stack[Len(parser.stack) + 1].pos = parser'.pos]_vars
  /\ [][(/\ \E name \in ScopeNames : Closes(name)
         /\ parser'.err = NoParseError) =>
          IF parser'.tok.name = "try" THEN Keeps({"attempt", "except"})
          ELSE IF parser'.tok.name = "choose" THEN Keeps({"when", "otherwise"})
          ELSE ClosedNode.nodes = ScopeNodes(parser.stack)]_vars
  /\ [](parser.made =>
          /\ \A k \in 1..Len(parser.out) :
               /\ parser.out[k].pos = IF k = 1 THEN 1
                                      ELSE parser.out[k - 1].end + 1
               /\ parser.out[k].pos <= parser.out[k].end
          /\ parser.ret # NoParseError =>
               /\ \A k \in 1..Len(All(parser)) :
                    /\ All(parser)[k].err # EOF
                    /\ All(parser)[k].err # NoParseError => k = Len(All(parser))
                    /\ (All(parser)[k].node = NilNode)
                         = (All(parser)[k].err # NoParseError)
               /\ SelectSeq(All(parser), LAMBDA y : y.err = NoParseError)
                    = [k \in 1..Len(parser.out) |->
                         [node |-> parser.out[k], err |-> NoParseError]])

\* Next has returned a remove element that holds a nested node and then a
\* second node, and after that UnclosedElementError.
C31_Witness ==
  /\ parser.made
  /\ Len(parser.out) = 2
  /\ parser.out[1].kind = "remove"
  /\ parser.out[1].nodes # <<>>
  /\ parser.ret.type = "UnclosedElementError"
  /\ Len(All(parser)) = 3

\* The parser p and its reader rd after Next was called until it returned
\* an error.
RECURSIVE ParsedToEnd(_, _)
ParsedOn(p, rd) ==
  ParsedToEnd(IF rd.ret = NoParseError THEN onToken(p, ParserTok(rd.tok))
              ELSE onError(p, rd.ret), rd)

ParsedToEnd(p, rd) ==
  IF p.err # NoParseError THEN p ELSE ParsedOn(p, ReadNext(rd))

\* The reader rd after Next was called until it returned an error.
RECURSIVE ReadToEnd(_)
ReadToEnd(rd) == IF rd.ret # NoParseError THEN rd ELSE ReadToEnd(ReadNext(rd))

\* The parser has yielded so far what the parser p yields in all.
YieldsAs(p) ==
  /\ IsPrefix(parser.out, p.out)
  /\ parser.ret # NoParseError => parser.out = p.out /\ parser.ret = p.ret

\* The reader has yielded so far what the reader rd yields in all.
ScansAs(rd) ==
  /\ IsPrefix(reader.toks, rd.toks)
  /\ reader.ret # NoParseError => reader.toks = rd.toks /\ reader.ret = rd.ret

\* C32: whatever state a parser was in when it was reset to an input, the
\* nodes it returns and the error it ends with are those a new parser gives
\* for that input; and likewise the tokens and the error of a reader that
\* was reset are those of a new reader.
C32_ResetYieldsAsNew ==
  /\ parser.made /\ reader.made =>
       YieldsAs(ParsedToEnd(NewParser, NewReader(reader.in)))
  /\ reader.made /\ ~parser.made => ScansAs(ReadToEnd(NewReader(reader.in)))

\* A parser that was reset has returned a node and then
\* UnclosedElementError.
C32_Witness ==
  /\ parser.made
  /\ reader.made
  /\ reader.resets = 1
  /\ parser.out # <<>>
  /\ parser.ret.type = "UnclosedElementError"

ChooseOfOtherwise(b) == CHOOSE ch \in ChooseIds : NodeTab[ch].oth = b

\* The test of the when w yields false, without an error.
TestsFalse(w) == EvalFunc(NodeTab[w].test) = [val |-> "false", err |-> NoErr]

\* The branch b (a when or an otherwise) is the one its choose takes, given
\* whether a test collaborator is configured: a when whose test is true after
\* every earlier test was false, an otherwise after every test was false.
Taken(hasTest, b) ==
  IF NodeTab[b].kind = "when"
  THEN /\ hasTest
       /\ EvalFunc(NodeTab[b].test) = [val |-> "true", err |-> NoErr]
       /\ \A j \in 1..Len(NodeTab[ChooseOf(b)].kids) :
            (\E k \in (j + 1)..Len(NodeTab[ChooseOf(b)].kids) :
               NodeTab[ChooseOf(b)].kids[k] = b)
              => TestsFalse(NodeTab[ChooseOf(b)].kids[j])
  ELSE \A w \in Range(NodeTab[ChooseOfOtherwise(b)].kids) :
         hasTest /\ TestsFalse(w)

\* The when and otherwise branches that hold the include i as a child.
BranchesWith(i) ==
  {b \in KindIds("when") \cup KindIds("otherwise") : i \in Range(NodeTab[b].kids)}

\* C34: a fetch is started (its goroutine launched, or its item queued for the
\* workers) for an include of a choose branch only if that branch is taken:
\* never for a when whose test was false or was not evaluated, never for an
\* otherwise when some when matched.
C34_NoFetchInUntakenBranch ==
  \A c \in Calls :
    /\ \A i \in DOMAIN incs[c] :
         incs[c][i].pc # "idle" =>
           \A b \in BranchesWith(i) :
             /\ Taken(opts.evalFunc, b)
             /\ NodeTab[b].kind = "when" => b \in evald[c]
    /\ pool.made =>
         \A i \in DOMAIN pool.callers[c].items :
           pool.callers[c].items[i].st # "none" =>
             \A b \in BranchesWith(i) : Taken(pool.testFunc, b)

\* Both Processors have finished the choose whose only test is false: the
\* include of its otherwise was fetched and written, the include of the when
\* was neither started nor queued.
C34_Witness ==
  /\ pool.made
  /\ docs[1] = <<72>>
  /\ ret[1].st = "returned"
  /\ cons[1].out = <<"J">>
  /\ incs[1][75].pc = "idle"
  /\ incs[1][76].pc # "idle"
  /\ pool.callers[1].pc = "returned"
  /\ pool.callers[1].out = <<"J">>
  /\ pool.callers[1].items[75].st = "none"
  /\ pool.callers[1].items[76].st = "done"

\* ------------------------------------------------------------------ C33
\* The fetches of all includes among the first k nodes of the call's sequence
\* have completed.
FetchedUpTo(c, k) ==
  /\ k <= Len(docs[c])
  /\ \A j \in 1..k :
       NodeTab[docs[c][j]].kind = "include" => incs[c][docs[c][j]].pc = "done"

\* The output of the first k nodes is written, or, if one of them fails, the
\* writer has stopped with an error.
WrittenUpTo(c, k) ==
  /\ k <= Len(docs[c])
  /\ IF SyncNodes(SubSeq(docs[c], 1, k)).err = NoErr
     THEN IsPrefix(SyncNodes(SubSeq(docs[c], 1, k)).out, cons[c].out)
     ELSE cons[c].firstErr # NoErr

\* C33: once the fetches of all includes up to position k have completed, the
\* output up to position k gets written, whether or not the fetches of later
\* siblings ever complete.
C33_WaitsOnlyForReachedInclude ==
  \A c \in Calls : \A k \in 1..MaxDocLen :
    FetchedUpTo(c, k) ~> WrittenUpTo(c, k)

\* The first include's bytes are written while the fetch of its later sibling
\* is still inside Client.Do.
C33_Witness ==
  /\ docs[1] = <<2, 5>>
  /\ cons[1].out = <<"x">>
  /\ incs[1][5].pc = "srcDo"

\* ------------------------------------------------------------------ C39
\* The fragment handed to the inner Process call contains an include.
InnerHasInclude ==
  \E j \in 1..Len(docs[2]) : NodeTab[docs[2][j]].kind = "include"

\* C39: under limit 1, once the Client has called Process from inside
\* Client.Do on a fragment that contains an include, both the inner and the
\* outer Process call eventually return.
C39_NestedProcessReturns ==
  (opts.clientConcurrency = 1 /\ ret[2].st = "running" /\ InnerHasInclude)
    ~> (ret[1].st = "returned" /\ ret[2].st = "returned")

\* C39, what holds instead: under limit 1 the inner call's include never gets
\* past the send on incSema, whose only token the outer doInclude holds, and
\* neither call ever returns.
C39_NestedProcessBlocks ==
  [](opts.clientConcurrency = 1 /\ ret[2].st = "running" /\ InnerHasInclude
       => [](ret[1].st = "running" /\ ret[2].st = "running" /\ incSema = 1))

\* Under limit 1 the inner call's include waits for the token that the outer
\* include holds while it is inside Client.Do.
C39_Blocked ==
  /\ opts.clientConcurrency = 1
  /\ docs[1] = <<77>>
  /\ docs[2] = <<2>>
  /\ incs[1][77].pc = "nested"
  /\ incs[2][2].pc = "src"
  /\ incSema = 1
  /\ cons[1].pc = "wait"
  /\ cons[2].pc = "wait"

\* ------------------------------------------------------------------ C35
\* The worker w is past the point where pop handed it an item.
Holds(w) == pool.workers[w].pc \in {"more", "taken", "fetch"}

\* How often the item x stands in the queue or is held by a worker.
Copies(x) ==
  Cardinality({k \in 1..Len(pool.items) : pool.items[k] = x})
  + Cardinality({w \in WorkerIds : Holds(w) /\ pool.workers[w].item = x})

\* C35: under every interleaving of push and pop, an item pop returned was
\* pushed before, every pushed item is in the queue or with exactly one pop
\* until its fetch is done (none is dropped, none is handed out twice), and
\* the queue changes only by push appending at its end and pop taking its
\* first item, so that items are handed out in the order they were pushed.
C35_QueueIsFifoWithoutLossOrDuplicates ==
  /\ [](\A w \in WorkerIds :
          Holds(w) =>
            pool.callers[pool.workers[w].item[1]]
              .items[pool.workers[w].item[2]].st = "queued")
  /\ [](\A c \in Calls : \A i \in DOMAIN pool.callers[c].items :
          Copies(<<c, i>>) =
            IF pool.callers[c].items[i].st = "queued" THEN 1 ELSE 0)
  /\ [][\/ pool'.items = pool.items
        \/ \E c \in Calls : \E i \in DOMAIN pool.callers[c].items :
             /\ pool.callers[c].items[i].st = "none"
             /\ pool'.items = Append(pool.items, <<c, i>>)
        \/ /\ pool.items # <<>>
           /\ pool'.items = Tail(pool.items)
           /\ \E w \in WorkerIds :
                /\ ~Holds(w)
                /\ Holds(w)'
                /\ pool'.workers[w].item = Head(pool.items)]_vars

\* Two workers hold different items while two more wait in the queue in the
\* order they were pushed by different callers.
C35_Witness ==
  /\ Len(pool.items) = 2
  /\ pool.items[1][1] # pool.items[2][1]
  /\ Holds(1)
  /\ Holds(2)
  /\ pool.workers[1].item # pool.workers[2].item

\* ------------------------------------------------------------------ C36
\* No include that was pushed is still waiting for its done channel.
NoneQueued ==
  \A c \in Calls : \A i \in DOMAIN pool.callers[c].items :
    pool.callers[c].items[i].st # "queued"

\* C36: no wake-up is lost: while Release is not called, whenever the queue
\* holds an item some pop eventually returns one, and every include a Process
\* call has pushed eventually has its done channel closed (an include goes
\* from pushed to done once, so this says that in the end none is pending).
C36_NoLostWakeup ==
  /\ (pool.items # <<>>) ~> (\E w \in WorkerIds : Holds(w))
  /\ <>[]NoneQueued

\* One worker has fetched all three includes of two callers, although the
\* signals of pushes that found cond full were dropped.
C36_Witness ==
  /\ pool.fetchConcurrency = 1
  /\ \A i \in {2, 5} : pool.callers[1].items[i].st = "done"
  /\ pool.callers[2].items[3].st = "done"
  /\ pool.items = <<>>
====
